---- MODULE Spec2Model ----
(***************************************************************************)
(* Model of the WFAP negotiation protocol: the broker's authentication,    *)
(* routing and aggregation (broker_agent/broker_executor.py), the token    *)
(* manager (auth-config.py), the company agent's send path and offer       *)
(* evaluation (company_agent/agent.py), the bank agents' request handling  *)
(* and negotiation engines, and the HMAC signatures (signature_utils.py).  *)
(*                                                                         *)
(* Time is counted in hours.  JSON values are modelled by their shape:     *)
(* a missing key is "<absent>", a JSON null is "<null>".                   *)
(***************************************************************************)
EXTENDS Integers, Sequences, FiniteSets, TLC

(***************************************************************************)
(* Bounds of the model                                                     *)
(***************************************************************************)
MaxTime == 2

Times == 0..MaxTime

\* The largest number of offers the company holds at once
MaxOffers == 3

\* The two request contexts the broker may be executing
Reqs == {"r1", "r2"}

(***************************************************************************)
(* auth-config.py                                                          *)
(***************************************************************************)
token_expiry_hours == 1

jwt_secret == "wfap-jwt-secret-key-2024"

BrokerClientId == "broker-server"
BrokerClientSecret == "broker-secret-key-123"

\* client_id -> client_secret of every AUTH_CONFIG entry
valid_clients ==
    ("broker-server" :> "broker-secret-key-123") @@
    ("company-agent" :> "company-secret-456") @@
    ("wells-fargo-agent" :> "wf-secret-789") @@
    ("boa-agent" :> "boa-secret-101") @@
    ("chase-agent" :> "chase-secret-202")

\* A JWT, by the parts validation looks at.  wf = FALSE is a string that is
\* not a JWT at all ("invalid-token-12345"); it also stands for None.
NoToken == [wf |-> FALSE, key |-> "", client_id |-> "", exp |-> 0, aud |-> "<absent>"]

Jwt(k, c, e, a) == [wf |-> TRUE, key |-> k, client_id |-> c, exp |-> e, aud |-> a]

\* AuthManager.generate_access_token: None for unknown credentials, else a
\* token for client_id that expires token_expiry_hours after t (utcnow).
generate_access_token(client_id, client_secret, t) ==
    IF client_id \notin DOMAIN valid_clients
       \/ valid_clients[client_id] # client_secret
    THEN NoToken
    ELSE Jwt(jwt_secret, client_id, t + token_expiry_hours, "wfap-agents")

\* jwt.decode(token, self.jwt_secret, algorithms=["HS256"]) at true time t:
\* the default options verify the signature, exp, and - because no
\* audience= is passed - reject every token that carries an aud claim.
jwt_decode(token, t) ==
    /\ token.wf
    /\ token.key = jwt_secret
    /\ ~(token.exp <= t)
    /\ token.aud = "<absent>"

\* datetime.utcnow().timestamp(): the naive UTC wall clock read as LOCAL
\* time, i.e. the true time shifted by the host's UTC offset (in hours).
utcnow_timestamp(t, offset) == t - offset

\* validate_token without any expiry check
validate_token_ignoring_exp(token, t, offset) ==
    /\ token.wf
    /\ token.key = jwt_secret
    /\ token.aud = "<absent>"

\* AuthManager.validate_token: TRUE iff the payload is returned.
validate_token(token, t, offset) ==
    /\ jwt_decode(token, t)
    /\ ~(utcnow_timestamp(t, offset) > token.exp)

(***************************************************************************)
(* Inbound messages (the text handed to BrokerAgentExecutor.execute)       *)
(***************************************************************************)
\* bank_endpoints, in insertion order
bank_endpoints == <<"wells-fargo", "bank-of-america", "chase-bank">>

EndpointKeys == {bank_endpoints[i] : i \in 1..Len(bank_endpoints)}

\* bank_name values a payload may carry
BankNames == {"<absent>", "<null>", "Wells Fargo", "Bank of America",
              "Chase Bank", "WELLS FARGO", "chase-bank", "Citibank"}

\* str.lower() on the bank names of the model ("<absent>" is the "" default)
Lower(name) ==
    CASE name = "<absent>" -> ""
      [] name = "Wells Fargo" -> "wells fargo"
      [] name = "Bank of America" -> "bank of america"
      [] name = "Chase Bank" -> "chase bank"
      [] name = "WELLS FARGO" -> "wells fargo"
      [] name = "chase-bank" -> "chase-bank"
      [] name = "Citibank" -> "citibank"
      [] OTHER -> name

\* A table that knows the endpoint keys only, not the names banks go by
bank_endpoint_map_keys_only(lname) ==
    CASE lname = "wells-fargo" -> "wells-fargo"
      [] lname = "bank-of-america" -> "bank-of-america"
      [] lname = "chase-bank" -> "chase-bank"
      [] OTHER -> lname

\* A table that sends a name it does not know to the first endpoint
bank_endpoint_map_defaulting(lname) ==
    CASE lname \in {"wells fargo", "wells-fargo"} -> "wells-fargo"
      [] lname \in {"bank of america", "bank-of-america"} -> "bank-of-america"
      [] lname \in {"chase bank", "chase-bank"} -> "chase-bank"
      [] OTHER -> "wells-fargo"

\* bank_endpoint_map.get(bank_name.lower(), bank_name.lower())
bank_endpoint_map(lname) ==
    CASE lname \in {"wells fargo", "wells-fargo"} -> "wells-fargo"
      [] lname \in {"bank of america", "bank-of-america"} -> "bank-of-america"
      [] lname \in {"chase bank", "chase-bank"} -> "chase-bank"
      [] OTHER -> lname

\* A message: kind says what the text is ("text": not JSON, "json_scalar":
\* JSON but not an object, "object": a JSON object, "auth_endpoint": text
\* starting with "/auth/").  The other fields are the object's keys; action
\* and bank_name are the keys of actual_message_data (the "data" object, or
\* the envelope itself when it has no "data").  signature names the secret
\* the HMAC signature was made with.
Message(kind, path, auth_form, token, client_id, client_secret, message_type, timestamp, data_kind, action, bank_name, agent_id, signature) ==
    [kind |-> kind, path |-> path, auth_form |-> auth_form, token |-> token,
     client_id |-> client_id, client_secret |-> client_secret,
     message_type |-> message_type, timestamp |-> timestamp,
     data_kind |-> data_kind, action |-> action, bank_name |-> bank_name,
     agent_id |-> agent_id, signature |-> signature]

NoMessage ==
    Message("none", "", "<absent>", NoToken, "<absent>", "", "<absent>",
            "<absent>", "<absent>", "<absent>", "<absent>", "<absent>", "<absent>")

\* An authenticated-message envelope as test_authentication.py builds them
Envelope(auth_form, token, client_id, message_type, timestamp, data_kind, action, bank_name) ==
    Message("object", "", auth_form, token, client_id, "", message_type,
            timestamp, data_kind, action, bank_name, "<absent>", "<absent>")

\* Tokens a client may present that the auth manager did not issue
ExpValues == {1, MaxTime + 2}

ForgedTokens ==
    {NoToken} \cup
    {Jwt(k, c, e, a) : k \in {jwt_secret, "other-key"},
                       c \in {"company-agent", "rogue-agent"},
                       e \in ExpValues, a \in {"<absent>", "wfap-agents"}}

\* A token that validates while the time is before MaxTime + 2
GoodToken == Jwt(jwt_secret, "company-agent", MaxTime + 2, "<absent>")

\* Messages that differ in how the credential is presented
CredentialMessages(tokens) ==
    {Message("text", "", "<absent>", NoToken, "<absent>", "", "<absent>",
             "<absent>", "<absent>", "<absent>", "<absent>", "<absent>", "<absent>"),
     Message("json_scalar", "", "<absent>", NoToken, "<absent>", "", "<absent>",
             "<absent>", "<absent>", "<absent>", "<absent>", "<absent>", "<absent>")}
    \cup
    {Envelope(f, NoToken, "company-agent", "credit_intent", "present", "dict",
              "<absent>", "<absent>") :
        f \in {"<absent>", "<null>", "nonstring", "noprefix"}}
    \cup
    {Envelope("bearer", tok, IF tok.wf THEN tok.client_id ELSE "rogue-agent",
              "credit_intent", "present", "dict", "<absent>", "<absent>") :
        tok \in tokens}

\* Messages that differ in the declared identity fields
IdentityMessages(tokens) ==
    {Envelope("bearer", tok, c, "credit_intent", ts, "dict", "<absent>", "<absent>") :
        tok \in {t \in tokens : t.wf /\ t.client_id = "company-agent"
                                   /\ t.key = jwt_secret /\ t.exp > 1},
        c \in {"<absent>", "", "company-agent", "rogue-agent"},
        ts \in {"<absent>", "present"}}

\* Messages that differ in what they ask the broker to route
RoutingMessages ==
    {Envelope("bearer", GoodToken, "company-agent", q[1], "present", q[2], q[3], q[4]) :
        q \in {p \in {"<absent>", "credit_intent", "negotiation_request"}
                     \X {"<absent>", "dict"}
                     \X {"<absent>", "negotiate_offer"}
                     \X BankNames :
                  \/ p[4] = "<absent>"
                  \/ p[1] = "negotiation_request"
                  \/ p[3] = "negotiate_offer"}}
    \cup
    {Envelope("bearer", GoodToken, "company-agent", mt, "present", "scalar",
              "<absent>", "<absent>") :
        mt \in {"<absent>", "credit_intent", "negotiation_request"}}

\* Texts that start with "/auth/": path "token" / "token_badgrant" carry
\* the JSON of a token request (client_id, client_secret; the latter with a
\* grant_type other than client_credentials), "token_badjson" text that is
\* not JSON, "verify" a token, "other" any other path.
AuthEndpointMessage(path, token, client_id, client_secret) ==
    Message("auth_endpoint", path, "<absent>", token, client_id, client_secret,
            "<absent>", "<absent>", "<absent>", "<absent>", "<absent>",
            "<absent>", "<absent>")

AuthEndpointMessages(issued) ==
    {AuthEndpointMessage(p, NoToken, c, cs) :
        p \in {"token", "token_badgrant"},
        c \in {"<absent>", "company-agent"},
        cs \in {"<absent>", "company-secret-456", "guess"}}
    \cup {AuthEndpointMessage(p, NoToken, "<absent>", "<absent>") :
             p \in {"token_badjson", "other"}}
    \cup {AuthEndpointMessage("verify", tok, "<absent>", "<absent>") :
             tok \in {NoToken, GoodToken} \cup issued}

\* The messages of two clients whose requests overlap
ConcurrentMessages ==
    {Envelope("bearer", GoodToken, "company-agent", "credit_intent", "present",
              "dict", "<absent>", "<absent>"),
     Envelope("bearer", GoodToken, "company-agent", "negotiation_request",
              "present", "dict", "negotiate_offer", "Wells Fargo")}

\* The messages clients send in a scenario
Messages(scenario, issued) ==
    IF scenario = "auth"
    THEN CredentialMessages(ForgedTokens \cup issued)
         \cup AuthEndpointMessages(issued)
         \cup IdentityMessages(ForgedTokens \cup issued)
    ELSE IF scenario = "concurrent" THEN ConcurrentMessages
    ELSE RoutingMessages

(***************************************************************************)
(* broker_agent/broker_executor.py: pure parts                             *)
(***************************************************************************)
\* Python truthiness of a string-valued key
Truthy(v) == v \notin {"<absent>", "<null>", ""}

\* _extract_auth_from_message without the validate_token step
_extract_auth_unvalidated(m, t, offset) ==
    /\ m.kind = "object"
    /\ m.auth_form = "bearer"
    /\ ~(Truthy(m.client_id) /\ m.token.client_id # m.client_id)

\* _extract_auth_from_message without the client_id comparison
_extract_auth_any_client(m, t, offset) ==
    /\ m.kind = "object"
    /\ m.auth_form = "bearer"
    /\ validate_token(m.token, t, offset)

\* BrokerAgentExecutor._extract_auth_from_message at true time t on a host
\* with UTC offset `offset`: TRUE iff a payload (the token's claims) is
\* returned, FALSE iff None is.
_extract_auth_from_message(m, t, offset) ==
    IF m.kind # "object" THEN FALSE              \* JSONDecodeError / not a dict
    ELSE IF m.auth_form \in {"<absent>", "<null>"} THEN FALSE  \* not auth_token
    ELSE IF m.auth_form = "nonstring" THEN FALSE \* .startswith raises, caught
    ELSE IF m.auth_form # "bearer" THEN FALSE    \* no "Bearer " prefix
    ELSE IF ~validate_token(m.token, t, offset) THEN FALSE
    ELSE IF Truthy(m.client_id) /\ m.token.client_id # m.client_id THEN FALSE
    ELSE TRUE

\* actual_message_data = message_data.get("data", message_data) is a dict
ActualIsDict(m) == m.data_kind \in {"<absent>", "dict"}

\* The branch _route_message takes: "negotiation" (targeted),
\* "broadcast" (the else branch) or "fallback" (the except branch, entered
\* on the AttributeError of .get on a non-dict or .lower() on a null name).
_route_message(m) ==
    IF m.message_type = "negotiation_request"
    THEN IF ActualIsDict(m) /\ m.bank_name # "<null>"
         THEN "negotiation" ELSE "fallback"
    ELSE IF ~ActualIsDict(m) THEN "fallback"
    ELSE IF m.action = "negotiate_offer"
         THEN IF m.bank_name # "<null>" THEN "negotiation" ELSE "fallback"
         ELSE "broadcast"

\* What the forwarded "data" is: the inner payload, or the whole inbound
\* envelope (when it has no "data" key, or on the fallback branch)
ForwardedData(m) ==
    IF _route_message(m) = "fallback" \/ m.data_kind = "<absent>"
    THEN "envelope" ELSE "payload"

\* The message the broker posts to a bank (authenticated_bank_message /
\* authenticated_negotiation_message); it has no "signature" key.
BankMessage(broker_token, message_type, data, target_bank) ==
    [auth_form |-> IF broker_token.wf THEN "bearer" ELSE "<null>",
     token |-> broker_token, client_id |-> BrokerClientId,
     message_type |-> message_type, data |-> data, source |-> "broker",
     target_bank |-> target_bank, action |-> "<absent>",
     signature |-> "<absent>"]

NoCall == [bank |-> "", env |-> BankMessage(NoToken, "", "", "")]

\* An HTTP outcome of client.post: kind "exception" (timeout, connection
\* failure) or "http" with a status and a body.  A body is "not_json"
\* (response.json() raises), "null" (JSON that is no object), "no_result"
\* (an object without result.artifacts) or "result" with its text parts.
PartKinds == {"offer", "json_dict", "json_scalar", "text"}

Body(shape, parts) == [shape |-> shape, parts |-> parts]

Outcome(kind, status, body) == [kind |-> kind, status |-> status, body |-> body]

NoReply == Outcome("none", 0, Body("", <<>>))

\* One element of the list _route_to_banks / _route_negotiation_to_bank returns
Response(bank, status, body, error) ==
    [bank |-> bank, status |-> status, body |-> body, error |-> error]

\* A loop that posts again to a bank whose post failed
NextBankRetrying(bank_responses) ==
    IF bank_responses[Len(bank_responses)].status = "error"
       /\ Len(bank_responses) < 2
    THEN Len(bank_responses)
    ELSE Len(bank_responses) + 1

\* A loop that a failed post ends
NextBankAborting(bank_responses) ==
    IF bank_responses[Len(bank_responses)].status = "error"
    THEN Len(bank_endpoints) + 1
    ELSE Len(bank_responses) + 1

\* The for loop of _route_to_banks (line 224): the index in bank_endpoints
\* of the bank posted to after bank_responses were collected
NextBank(bank_responses) == Len(bank_responses) + 1

\* The record appended for bank after client.post returned outcome o
\* (lines 265-315 of _route_to_banks)
RouteRecord(bank, o) ==
    IF o.kind = "exception" THEN Response(bank, "error", Body("", <<>>), "exception")
    ELSE IF o.status = 200
         THEN IF o.body.shape = "not_json"
              THEN Response(bank, "error", Body("", <<>>), "exception")
              ELSE Response(bank, "success", o.body, "")
         ELSE Response(bank, "error", Body("", <<>>), "HTTP")

\* The audit action logged with that record
RouteAudit(bank, o) ==
    IF o.kind = "exception" THEN "bank_routing_exception"
    ELSE IF o.status = 200
         THEN IF o.body.shape = "not_json" THEN "bank_routing_exception"
              ELSE "bank_routing_success"
         ELSE "bank_routing_error"

\* The record _route_negotiation_to_bank returns after client.post
\* (lines 486-518): the status code is not looked at.
NegotiationRecord(bank, o) ==
    IF o.kind = "exception" \/ o.body.shape = "not_json"
    THEN Response(bank, "error", Body("", <<>>), "exception")
    ELSE Response(bank, "success", o.body, "")

NegotiationAudit(bank, o) ==
    IF o.kind = "exception" \/ o.body.shape = "not_json"
    THEN "negotiation_error" ELSE "negotiation_response_received"

\* An audit entry; `by` is the request whose execution appended it
AuditEntry(action, bank, by) == [action |-> action, bank |-> bank, by |-> by]

\* A log that keeps the latest entry only in its last place
_log_audit_replacing(log, entry) ==
    IF log = <<>> THEN <<entry>> ELSE [log EXCEPT ![Len(log)] = entry]

\* A log that puts the latest entry first
_log_audit_prepending(log, entry) == <<entry>> \o log

\* BrokerAgentExecutor._log_audit: self.audit_log.append(audit_entry)
_log_audit(log, entry) == Append(log, entry)

\* The _log_audit calls made one after the other for entries
RECURSIVE LogAll(_, _)
LogAll(log, entries) ==
    IF entries = <<>> THEN log
    ELSE LogAll(_log_audit(log, Head(entries)), Tail(entries))

EmptyAggregate == [offers |-> <<>>, text_responses |-> <<>>, errors |-> <<>>,
                   audits |-> <<>>]

\* The loop over the parts of one successful response (lines 332-353)
RECURSIVE AggregateParts(_, _, _, _)
AggregateParts(parts, bank, by, acc) ==
    IF parts = <<>> THEN acc
    ELSE LET p == Head(parts) IN
         IF p = "text"
         THEN AggregateParts(Tail(parts), bank, by,
                [acc EXCEPT !.text_responses = Append(@, [bank |-> bank, kind |-> p]),
                            !.audits = Append(@, AuditEntry("text_response_received", bank, by))])
         ELSE IF p = "json_scalar"
         \* appended to valid_offers, then offer_data.get raises: the outer
         \* except records a parse failure and the remaining parts are skipped
         THEN [acc EXCEPT !.offers = Append(@, [bank |-> bank, kind |-> p]),
                          !.errors = Append(@, [bank |-> bank, kind |-> "Failed to parse offer"])]
         ELSE AggregateParts(Tail(parts), bank, by,
                [acc EXCEPT !.offers = Append(@, [bank |-> bank, kind |-> p]),
                            !.audits = Append(@, AuditEntry("offer_received", bank, by))])

\* BrokerAgentExecutor._aggregate_responses (the buckets and the audit
\* entries it appends)
RECURSIVE AggregateFrom(_, _, _)
AggregateFrom(bank_responses, by, acc) ==
    IF bank_responses = <<>> THEN acc
    ELSE LET response == Head(bank_responses) IN
         AggregateFrom(Tail(bank_responses), by,
           IF response.status = "success"
           THEN IF response.body.shape = "null"
                THEN [acc EXCEPT !.errors = Append(@, [bank |-> response.bank,
                                                       kind |-> "Failed to parse offer"])]
                ELSE IF response.body.shape = "result"
                THEN AggregateParts(response.body.parts, response.bank, by, acc)
                ELSE acc
           ELSE [acc EXCEPT !.errors = Append(@, [bank |-> response.bank,
                                                  kind |-> response.error])])

_aggregate_responses(bank_responses, by) ==
    LET acc == AggregateFrom(bank_responses, by, EmptyAggregate) IN
    [offers |-> acc.offers, text_responses |-> acc.text_responses,
     errors |-> acc.errors, audits |-> acc.audits,
     total_banks |-> Len(bank_responses),
     successful_responses |-> Len(acc.offers) + Len(acc.text_responses),
     failed_responses |-> Len(acc.errors)]

NoResult ==
    [offers |-> <<>>, text_responses |-> <<>>, errors |-> <<>>, audits |-> <<>>,
     total_banks |-> 0, successful_responses |-> 0, failed_responses |-> 0]

(***************************************************************************)
(* company_agent/agent.py: evaluate_offers, pure parts                     *)
(***************************************************************************)
\* A bank offer as evaluate_offers reads it.  interest_rate,
\* draw_fee_percentage and unused_credit_fee are in hundredths of a percent;
\* overall_esg_score is in tenths, carbon_footprint_reduction in whole
\* numbers;
\* null_fields names the keys whose value is JSON null (their number is
\* then unused); missing_fields names the keys the offer does not have,
\* which offer.get(key, 0) reads as 0.
Offer(offer_id, bank_name, limit, rate, draw, unused, orig, esg, carbon, flags, nulls, missing) ==
    [offer_id |-> offer_id, bank_name |-> bank_name,
     approved_credit_limit |->
         IF "approved_credit_limit" \in missing THEN 0 ELSE limit,
     interest_rate |-> IF "interest_rate" \in missing THEN 0 ELSE rate,
     draw_fee_percentage |->
         IF "draw_fee_percentage" \in missing THEN 0 ELSE draw,
     unused_credit_fee |-> IF "unused_credit_fee" \in missing THEN 0 ELSE unused,
     origination_fee |-> IF "origination_fee" \in missing THEN 0 ELSE orig,
     overall_esg_score |-> IF "overall_esg_score" \in missing THEN 0 ELSE esg,
     carbon_footprint_reduction |->
         IF "carbon_footprint_reduction" \in missing THEN 0 ELSE carbon,
     collateral_required |-> "collateral" \in flags,
     personal_guarantee_required |-> "guarantee" \in flags,
     prepayment_penalty |-> "prepayment" \in flags,
     null_fields |-> nulls \ missing,
     missing_fields |-> missing]

\* The offers of the model: WF-1 and BOA-1 differ in composite_score (6.1
\* and 6.4), CH-1 ties with WF-1 on composite_score and has the higher
\* esg_impact_score, WF-2 is WF-1 without an origination fee and ties with
\* it on both, BOA-2 has a null carbon_footprint_reduction, CH-2 has no
\* approved_credit_limit and BOA-3 has a null interest_rate.
OfferPool ==
    {Offer("WF-1", "Wells Fargo", 950000, 650, 50, 50, 5000, 80, 20, {}, {}, {}),
     Offer("BOA-1", "Bank of America", 1000000, 650, 50, 50, 5000, 90, 0, {"guarantee"}, {}, {}),
     Offer("CH-1", "Chase Bank", 950000, 650, 50, 50, 5000, 90, 20, {}, {}, {}),
     Offer("WF-2", "Wells Fargo", 950000, 650, 50, 50, 0, 80, 20, {}, {}, {}),
     Offer("BOA-2", "Bank of America", 1000000, 600, 50, 50, 5000, 90, 0, {},
           {"carbon_footprint_reduction"}, {}),
     Offer("CH-2", "Chase Bank", 0, 650, 50, 50, 5000, 90, 20, {}, {},
           {"approved_credit_limit"}),
     Offer("BOA-3", "Bank of America", 1000000, 0, 50, 50, 5000, 90, 0, {},
           {"interest_rate"}, {})}

\* Lists of at most n different offers
OfferLists(n) ==
    {l \in UNION {[1..k -> OfferPool] : k \in 0..n} :
        \A i, j \in 1..Len(l) : i # j => l[i] # l[j]}

\* The lists a first broker result may hold, and the lists a later one may
FirstOfferLists == OfferLists(MaxOffers)

LaterOfferLists == OfferLists(1)

\* The comparative view (lines 731-755) raises on a null in a field it
\* compares or formats; the exception leaves evaluate_offers through its
\* outer handler.
DisplayRaises(offer) ==
    offer.null_fields \cap {"approved_credit_limit", "interest_rate",
                            "draw_fee_percentage", "unused_credit_fee",
                            "origination_fee", "overall_esg_score"} # {}

\* The try block of the scoring loop (lines 768-835) raises on arithmetic
\* with a null field
ScoringRaises(offer) == offer.null_fields # {}

\* effective_rate, in hundredths of a percent: total_annual_cost (interest
\* on 70% of the limit, four draw fees a year on it, the unused fee on the
\* other 30%) over the limit; the values of OfferPool make it exact.
effective_rate(offer) ==
    IF offer.approved_credit_limit > 0
    THEN (7 * offer.interest_rate + 28 * offer.draw_fee_percentage
            + 3 * offer.unused_credit_fee) \div 10
    ELSE 0

\* A penalty that counts the first flag set only
risk_penalty_exclusive(offer) ==
    IF offer.collateral_required THEN 50
    ELSE IF offer.personal_guarantee_required THEN 30
    ELSE IF offer.prepayment_penalty THEN 20
    ELSE 0

\* risk_penalty, in hundredths
risk_penalty(offer) ==
    (IF offer.collateral_required THEN 50 ELSE 0)
    + (IF offer.personal_guarantee_required THEN 30 ELSE 0)
    + (IF offer.prepayment_penalty THEN 20 ELSE 0)

\* The evaluated_offer built for an offer (lines 814-830), scores in hundredths
ScoredOffer(offer) ==
    [offer |-> offer,
     effective_rate |-> effective_rate(offer),
     risk_penalty |-> risk_penalty(offer),
     composite_score |-> effective_rate(offer) + risk_penalty(offer),
     esg_impact_score |-> 10 * offer.overall_esg_score
                          + 10 * offer.carbon_footprint_reduction]

\* A sort key that looks at composite_score only
SortKeyCompositeOnly(x) == <<x.composite_score, 0>>

\* The sort key of line 845: (composite_score, -esg_impact_score)
SortKey(x) == <<x.composite_score, 0 - x.esg_impact_score>>

\* Python's tuple comparison k1 < k2
KeyLess(k1, k2) == k1[1] < k2[1] \/ (k1[1] = k2[1] /\ k1[2] < k2[2])

\* list.sort is stable: x goes behind every element whose key is not
\* greater than its own
InsertSorted(sorted, x) ==
    LET n == Cardinality({i \in 1..Len(sorted) :
                             ~KeyLess(SortKey(x), SortKey(sorted[i]))})
    IN SubSeq(sorted, 1, n) \o <<x>> \o SubSeq(sorted, n + 1, Len(sorted))

RECURSIVE SortStable(_, _)
SortStable(sorted, rest) ==
    IF rest = <<>> THEN sorted
    ELSE SortStable(InsertSorted(sorted, Head(rest)), Tail(rest))

\* The scoring loop: an offer whose scoring raises is skipped
RECURSIVE ScoreAll(_)
ScoreAll(offers) ==
    IF offers = <<>> THEN <<>>
    ELSE IF ScoringRaises(Head(offers)) THEN ScoreAll(Tail(offers))
    ELSE <<ScoredOffer(Head(offers))>> \o ScoreAll(Tail(offers))

\* CompanyAgent.evaluate_offers on the non-empty list `offers`: whether it
\* fails as a whole, and the evaluated_offers it stores and returns if not
EvaluationFails(offers) == \E i \in 1..Len(offers) : DisplayRaises(offers[i])

evaluate_offers(offers) == SortStable(<<>>, ScoreAll(offers))

\* No evaluate_offers call was made yet
NoEvaluation == [status |-> "none", offers |-> <<>>]

\* What select_best_offer returns: an error, or the first element of the
\* list it works on with the list's kind
NoSelection == [status |-> "none", offer_id |-> "", scored |-> FALSE]

\* CompanyAgent.select_best_offer called without evaluated_offers_data
select_best_offer(evaluated, received) ==
    IF evaluated # <<>>
    THEN [status |-> "success", offer_id |-> evaluated[1].offer.offer_id,
          scored |-> TRUE]
    ELSE IF received # <<>>
    THEN [status |-> "success", offer_id |-> received[1].offer_id,
          scored |-> FALSE]
    ELSE [status |-> "error", offer_id |-> "", scored |-> FALSE]

(***************************************************************************)
(* wells_fargo_agent, chase_bank, boa_agent: the negotiation engine        *)
(***************************************************************************)
\* The negotiation_terms process_negotiation_request reads with
\* negotiation_terms.get(key, 0): 0 stands for a term that is not requested.
\* Rates are in hundredths of a percent, periods in months.
Terms(rate, limit, draw, repay, fee) ==
    [requested_interest_rate |-> rate, requested_credit_limit |-> limit,
     requested_draw_period_months |-> draw,
     requested_repayment_period_months |-> repay,
     requested_origination_fee |-> fee]

\* The intent_id of the CreditIntent the banks' offers answer
AnsweredIntentId == "INTENT-1"

\* An original_offer in the shape of protocols/response.py BankOffer: the
\* periods are inside line_of_credit_schedule, not keys of the offer.
Original(rate, limit, fee, draw, repay) ==
    [present |-> TRUE, intent_id |-> AnsweredIntentId,
     interest_rate |-> rate, approved_credit_limit |-> limit,
     origination_fee |-> fee,
     line_of_credit_schedule |->
         [draw_period_months |-> draw, repayment_period_months |-> repay]]

\* A negotiation request without original_offer
NoOriginal == [present |-> FALSE]

\* The negotiation request a bank receives
NegotiationRequest(original_offer_id, bank_name, terms, original) ==
    [original_offer_id |-> original_offer_id, bank_name |-> bank_name,
     negotiation_terms |-> terms, original_offer |-> original]

\* The constants of each bank's generate_counter_offer
Policy(bank) ==
    CASE bank = "wells-fargo" ->
           [prefix |-> "WF_COUNTER", max_rate_reduction |-> 50,
            draw_period |-> <<6, 18>>, repayment_period |-> <<12, 30>>,
            max_amount_increase |-> 20, max_fee_reduction |-> 25,
            default_rate |-> 650, default_draw_period |-> 12,
            default_repayment_period |-> 24, default_amount |-> 1000000,
            default_fee |-> 5000, draw_fee_percentage |-> 45,
            unused_credit_fee |-> 22, overall_esg_score |-> 85,
            carbon_footprint_reduction |-> 15]
      [] bank = "chase-bank" ->
           [prefix |-> "CHASE_COUNTER", max_rate_reduction |-> 60,
            draw_period |-> <<6, 21>>, repayment_period |-> <<12, 36>>,
            max_amount_increase |-> 25, max_fee_reduction |-> 35,
            default_rate |-> 600, default_draw_period |-> 12,
            default_repayment_period |-> 24, default_amount |-> 1000000,
            default_fee |-> 4000, draw_fee_percentage |-> 30,
            unused_credit_fee |-> 12, overall_esg_score |-> 82,
            carbon_footprint_reduction |-> 18]
      [] OTHER ->
           [prefix |-> "BOA_COUNTER", max_rate_reduction |-> 75,
            draw_period |-> <<24, 96>>, repayment_period |-> <<24, 96>>,
            max_amount_increase |-> 30, max_fee_reduction |-> 40,
            default_rate |-> 620, default_draw_period |-> 60,
            default_repayment_period |-> 60, default_amount |-> 1000000,
            default_fee |-> 4500, draw_fee_percentage |-> 0,
            unused_credit_fee |-> 0, overall_esg_score |-> 88,
            carbon_footprint_reduction |-> 20]

\* The fields protocols/response.py BankOffer declares with Field(...)
BankOfferRequired ==
    {"intent_id", "bank_name", "bank_id", "approved_credit_limit",
     "interest_rate", "draw_fee_percentage", "unused_credit_fee",
     "line_of_credit_schedule", "esg_impact", "reasoning"}

\* The keyword arguments a bank's generate_counter_offer gives BankOffer
BankOfferArguments(bank) ==
    {"offer_id", "intent_id", "bank_name", "bank_id", "interest_rate",
     "esg_impact", "additional_conditions", "reasoning", "origination_fee",
     "prepayment_penalty", "collateral_required", "personal_guarantee_required"}
    \cup (IF bank = "bank-of-america"
          THEN {"approved_amount", "term_months", "repayment_schedule"}
          ELSE {"approved_credit_limit", "draw_fee_percentage",
                "unused_credit_fee", "line_of_credit_schedule"})

Max(a, b) == IF a >= b THEN a ELSE b

Min(a, b) == IF a <= b THEN a ELSE b

\* counter_rate = max(requested_rate, original_rate - max_rate_reduction)
counter_rate(requested_rate, original_rate, max_rate_reduction) ==
    Max(requested_rate, original_rate - max_rate_reduction)

\* What process_negotiation_request returns when generate_counter_offer raises
NegotiationError == [status |-> "error"]

\* generate_counter_offer of `bank`, wrapped as process_negotiation_request
\* returns it: BankOffer(...) raises a validation error when a required
\* field is not given, or when intent_id is None.
generate_counter_offer(bank, request) ==
    LET p == Policy(bank)
        terms == request.negotiation_terms
        original == request.original_offer
        original_rate ==
            IF original.present THEN original.interest_rate ELSE p.default_rate
        \* original_offer.get("draw_period_months", 12): the key is not
        \* one of the offer's
        original_draw_period == p.default_draw_period
        original_repayment_period == p.default_repayment_period
        original_amount ==
            IF original.present THEN original.approved_credit_limit
            ELSE p.default_amount
        original_fee ==
            IF original.present THEN original.origination_fee ELSE p.default_fee
        counter_draw_period ==
            IF terms.requested_draw_period_months > 0
            THEN Max(p.draw_period[1],
                     Min(p.draw_period[2], terms.requested_draw_period_months))
            ELSE original_draw_period
        counter_repayment_period ==
            IF terms.requested_repayment_period_months > 0
            THEN Max(p.repayment_period[1],
                     Min(p.repayment_period[2],
                         terms.requested_repayment_period_months))
            ELSE original_repayment_period
        counter_amount ==
            IF terms.requested_credit_limit > 0
            THEN Min(terms.requested_credit_limit,
                     original_amount
                       + (original_amount * p.max_amount_increase) \div 100)
            ELSE original_amount
        counter_fee ==
            Max(terms.requested_origination_fee,
                original_fee - (original_fee * p.max_fee_reduction) \div 100)
    IN IF ~(BankOfferRequired \subseteq BankOfferArguments(bank))
          \/ request.original_offer_id = "<absent>"
       THEN NegotiationError
       ELSE [status |-> "success",
             original_offer_id |-> request.original_offer_id,
             bank_name |-> request.bank_name,
             \* intent_id=original_offer_id, the counter_offer's intent_id
             intent_id |-> request.original_offer_id,
             counter_offer |->
                 Offer(p.prefix, request.bank_name, counter_amount,
                       counter_rate(terms.requested_interest_rate,
                                    original_rate, p.max_rate_reduction),
                       p.draw_fee_percentage, p.unused_credit_fee, counter_fee,
                       p.overall_esg_score, p.carbon_footprint_reduction,
                       {"guarantee"}, {}, {}),
             line_of_credit_schedule |->
                 [draw_period_months |-> counter_draw_period,
                  repayment_period_months |-> counter_repayment_period]]

\* process_negotiation_request: the terms are read with default 0 and the
\* result of generate_counter_offer is returned under negotiation_response
process_negotiation_request(bank, request) == generate_counter_offer(bank, request)

\* The bank_name each bank's process_negotiation_request falls back to
DefaultBankName(bank) ==
    CASE bank = "wells-fargo" -> "Wells Fargo"
      [] bank = "chase-bank" -> "Chase Bank"
      [] OTHER -> "Bank of America"

\* The requests of the model: every term absent, inside the bank's window,
\* and beyond it on either side
RequestedRates == {0, 400, 625, 700}
RequestedLimits == {0, 500000, 1100000, 2000000}
RequestedPeriods == {0, 3, 15, 40}
RequestedFees == {0, 3000, 6000}

OriginalOffers == {NoOriginal, Original(650, 1000000, 5000, 18, 30), Original(620, 800000, 4000, 12, 24)}

NegotiationRequests(bank) ==
    {NegotiationRequest("OFFER-1", DefaultBankName(bank),
                        Terms(rate, limit, period, period, fee), original) :
        rate \in RequestedRates, limit \in RequestedLimits,
        period \in RequestedPeriods, fee \in RequestedFees,
        original \in OriginalOffers}

\* No negotiation request was processed yet
NoNegotiation ==
    [bank |-> "", request |-> NegotiationRequest("", "", Terms(0, 0, 0, 0, 0), NoOriginal),
     response |-> [status |-> "none"]]

(***************************************************************************)
(* signature_utils.py                                                      *)
(***************************************************************************)
\* A message_content dict is the sequence of its <<key, value>> pairs in
\* insertion order, without its 'signature' entry.  The value "<datetime>"
\* is an object json.dumps cannot serialize.
KeyRank(key) ==
    CASE key = "agent_id" -> 1
      [] key = "data" -> 2
      [] key = "message_type" -> 3
      [] OTHER -> 4

\* The pairs of a dict with the pair x put in its place by key
InsertByKey(sorted, x) ==
    LET n == Cardinality({i \in 1..Len(sorted) : KeyRank(sorted[i][1]) < KeyRank(x[1])})
    IN SubSeq(sorted, 1, n) \o <<x>> \o SubSeq(sorted, n + 1, Len(sorted))

RECURSIVE SortByKey(_, _)
SortByKey(sorted, rest) ==
    IF rest = <<>> THEN sorted
    ELSE SortByKey(InsertByKey(sorted, Head(rest)), Tail(rest))

\* Whether json.dumps(message_content, ...) raises
DumpRaises(content) == \E i \in 1..Len(content) : content[i][2] = "<datetime>"

\* json.dumps(message_content, sort_keys=True, separators=(',', ':'))
json_dumps(content) == SortByKey(<<>>, content)

\* base64(HMAC-SHA256(key, text)): different texts or keys give different
\* signatures
Hmac(text, key) == [empty |-> FALSE, text |-> text, key |-> key]

\* The signature ""
EmptySignature == [empty |-> TRUE, text |-> <<>>, key |-> ""]

\* generate_signature: "" when anything raises (lines 46-48), which
\* len(secret_key) does for a secret that is None and json.dumps does for a
\* value it cannot serialize
generate_signature(content, secret_key) ==
    IF secret_key = "<absent>" \/ DumpRaises(content) THEN EmptySignature
    ELSE Hmac(json_dumps(content), secret_key)

\* validate_signature: hmac.compare_digest(signature, expected_signature)
validate_signature(content, signature, secret_key) ==
    signature = generate_signature(content, secret_key)

\* A message: its content and its 'signature' entry, if it has one
SignedMessage(content, has_signature, signature) ==
    [content |-> content, has_signature |-> has_signature,
     signature |-> IF has_signature THEN signature ELSE EmptySignature]

\* extract_signature_from_message: a copy of the message without its
\* 'signature' entry, and message_copy.pop('signature', '')
extract_signature_from_message(m) ==
    <<SignedMessage(m.content, FALSE, EmptySignature), m.signature>>

\* The contents of the model: a credit intent, the same dict built in
\* another order, one with other data, and two that hold a datetime
Contents ==
    {<<<<"message_type", "credit_intent">>, <<"data", "intent-1">>>>,
     <<<<"data", "intent-1">>, <<"message_type", "credit_intent">>>>,
     <<<<"message_type", "credit_intent">>, <<"data", "intent-2">>>>,
     <<<<"message_type", "credit_intent">>, <<"data", "<datetime>">>>>,
     <<<<"message_type", "negotiation_request">>, <<"data", "<datetime>">>>>}

\* The secrets SecretsManager.get_secret may return: None or a key
Secrets == {"<absent>", "company-hmac-secret", "rogue-hmac-secret"}

\* No signature was verified yet
NoVerification ==
    [checked |-> FALSE, signed_content |-> <<>>, signed_with |-> "",
     signed_as |-> EmptySignature, received |-> SignedMessage(<<>>, FALSE, EmptySignature),
     received_after |-> SignedMessage(<<>>, FALSE, EmptySignature),
     content |-> SignedMessage(<<>>, FALSE, EmptySignature),
     signature |-> EmptySignature, verified_with |-> "", valid |-> FALSE]

(***************************************************************************)
(* company_agent/agent.py: assess_counter_offer, pure parts                *)
(***************************************************************************)
\* The acceptance criteria the counter-offer meets (lines 191-197)
criteria_met(details) ==
    (IF details.interest_rate <= 650 THEN 1 ELSE 0)
    + (IF details.approved_credit_limit >= 1000000 THEN 1 ELSE 0)
    + (IF details.draw_fee_percentage <= 60 THEN 1 ELSE 0)
    + (IF details.unused_credit_fee <= 30 THEN 1 ELSE 0)
    + (IF details.origination_fee <= 5000 THEN 1 ELSE 0)
    + (IF details.overall_esg_score >= 70 THEN 1 ELSE 0)

\* A decision that accepts from 60% on
assess_counter_offer_lenient(details) ==
    IF details.null_fields \ {"carbon_footprint_reduction"} # {} THEN "error"
    ELSE IF 100 * criteria_met(details) >= 60 * 6 THEN "ACCEPT"
    ELSE "REJECT"

\* The decision of assess_counter_offer: acceptance_percentage is
\* criteria_met / 6 * 100, compared with 80 and 60; a null among the six
\* fields raises in the comparison.
assess_counter_offer(details) ==
    IF details.null_fields \ {"carbon_footprint_reduction"} # {} THEN "error"
    ELSE IF 100 * criteria_met(details) >= 80 * 6 THEN "ACCEPT"
    ELSE IF 100 * criteria_met(details) >= 60 * 6 THEN "CONSIDER"
    ELSE "REJECT"

\* The counter-offers the company is given to assess: what Wells Fargo
\* answers when asked for 4.0% on WF-1, and what Chase answers when asked
\* for 7.0% on CH-1, with and without a fee of 6000.
CounterOfferPool ==
    {generate_counter_offer("wells-fargo",
         NegotiationRequest("WF-1", "Wells Fargo", Terms(400, 0, 0, 0, 0),
                            Original(650, 950000, 5000, 12, 24))).counter_offer,
     generate_counter_offer("chase-bank",
         NegotiationRequest("CH-1", "Chase Bank", Terms(700, 0, 0, 0, 0),
                            Original(650, 950000, 5000, 12, 24))).counter_offer,
     generate_counter_offer("chase-bank",
         NegotiationRequest("CH-1", "Chase Bank", Terms(700, 0, 0, 0, 6000),
                            Original(650, 950000, 5000, 12, 24))).counter_offer}

\* No assess_counter_offer call was made yet
NoAssessment ==
    [status |-> "none", decision |-> "",
     counter_offer |-> Offer("", "", 0, 0, 0, 0, 0, 0, 0, {}, {}, {}),
     held |-> <<>>]

\* Counter-offers that meet 6, 5, ... 0 of the six criteria, each value on
\* its threshold or just beyond it, and one whose interest_rate is null
AssessedOffers ==
    {Offer("N-6", "Chase Bank", 1000000, 650, 60, 30, 5000, 70, 0, {}, {}, {}),
     Offer("N-5", "Chase Bank", 999999, 650, 60, 30, 5000, 70, 0, {}, {}, {}),
     Offer("N-4", "Chase Bank", 999999, 651, 60, 30, 5000, 70, 0, {}, {}, {}),
     Offer("N-3", "Chase Bank", 999999, 651, 61, 30, 5000, 70, 0, {}, {}, {}),
     Offer("N-2", "Chase Bank", 999999, 651, 61, 31, 5000, 70, 0, {}, {}, {}),
     Offer("N-1", "Chase Bank", 999999, 651, 61, 31, 5001, 70, 0, {}, {}, {}),
     Offer("N-0", "Chase Bank", 999999, 651, 61, 31, 5001, 69, 0, {}, {}, {}),
     Offer("N-E", "Chase Bank", 1000000, 0, 60, 30, 5000, 70, 0, {},
           {"interest_rate"}, {})}

(***************************************************************************)
(* State                                                                   *)
(***************************************************************************)
VARIABLES
    now,              \* true time, hours
    tz,               \* UTC offset of the broker host's local time, hours
    scope,            \* the scenario explored: which inputs the environment offers
    company_secret,   \* SecretsManager.get_secret("company-agent")
    AGENT_TOKENS,     \* auth-config.py AGENT_TOKENS: client_id -> last token
    audit_log,        \* BrokerAgentExecutor.audit_log
    bank_handled,     \* the messages the bank agents have processed
    pc,               \* per request: where execute() is
    msg,              \* per request: user_input
    origin,           \* per request: who sent it
    auth_time,        \* per request: the time authentication was checked
    authenticated,    \* per request: auth_payload is not None
    mode,             \* per request: the branch _route_message took
    events,           \* per request: what was put on the event queue
    responses,        \* per request: bank_responses collected so far
    call,             \* per request: the client.post awaited
    reply,            \* per request: the outcome of that post, once known
    sent,             \* per request: every post made, in order
    result,           \* per request: response_data of the broker_result
    received_offers,  \* CompanyAgent.received_offers
    evaluated_offers, \* CompanyAgent.evaluated_offers
    scored_from,      \* the list `offers` the stored evaluation was made from
    evaluation,       \* the last evaluate_offers call: its status and its input
    best_offer,       \* what the last select_best_offer call returned
    assessment,       \* the last assess_counter_offer call and what it returned
    negotiation,      \* the last process_negotiation_request call of a bank
    verification      \* the last signature a receiver verified

\* The state of the company agent's offer evaluation
offer_vars == <<received_offers, evaluated_offers, scored_from, evaluation, best_offer, assessment>>

\* The calls of the bank agents' negotiation engines and of signature_utils
call_vars == <<negotiation, verification>>

vars == <<now, tz, scope, company_secret, AGENT_TOKENS, audit_log,
          bank_handled, pc, msg, origin, auth_time, authenticated, mode,
          events, responses, call, reply, sent, result, offer_vars, call_vars>>

TZOffsets == {-2, 0, 1}

ClientIds == DOMAIN valid_clients

NoEntry == AuditEntry("", "", "")

NoResponseData ==
    [aggregated_result |-> NoResult, total_audit_entries |-> 0,
     last_audit_entry |-> NoEntry]

InitCommon ==
    /\ now = 0
    /\ tz \in TZOffsets
    /\ company_secret \in {"<absent>", "company-hmac-secret"}
    /\ AGENT_TOKENS = [c \in ClientIds |-> NoToken]
    /\ audit_log = <<>>
    /\ bank_handled = {}
    /\ pc = [r \in Reqs |-> "idle"]
    /\ msg = [r \in Reqs |-> NoMessage]
    /\ origin = [r \in Reqs |-> ""]
    /\ auth_time = [r \in Reqs |-> -1]
    /\ authenticated = [r \in Reqs |-> FALSE]
    /\ mode = [r \in Reqs |-> ""]
    /\ events = [r \in Reqs |-> <<>>]
    /\ responses = [r \in Reqs |-> <<>>]
    /\ call = [r \in Reqs |-> NoCall]
    /\ reply = [r \in Reqs |-> NoReply]
    /\ sent = [r \in Reqs |-> <<>>]
    /\ result = [r \in Reqs |-> NoResponseData]
    /\ received_offers = <<>>
    /\ evaluated_offers = <<>>
    /\ scored_from = <<>>
    /\ evaluation = NoEvaluation
    /\ best_offer = NoSelection
    /\ assessment = NoAssessment
    /\ negotiation = NoNegotiation
    /\ verification = NoVerification

\* Scenario "auth" varies the credentials, the time and the host's UTC
\* offset; scenario "routing" varies what an authenticated message asks for
\* and what the bank endpoints answer; scenario "concurrent" has two
\* requests executing at once, their steps interleaved at the awaits;
\* scenario "ranking" has the company agent evaluate the offers it holds;
\* scenario "negotiation" has a bank answer one negotiation request;
\* scenario "signing" has one message signed and verified.
Init ==
    /\ InitCommon
    /\ \/ scope = "auth"
       \/ scope = "routing" /\ tz = 0 /\ company_secret = "company-hmac-secret"
       \/ scope = "concurrent" /\ tz = 0 /\ company_secret = "company-hmac-secret"
       \/ scope = "ranking" /\ tz = 0 /\ company_secret = "company-hmac-secret"
       \/ scope = "negotiation" /\ tz = 0 /\ company_secret = "company-hmac-secret"
       \/ scope = "signing" /\ tz = 0 /\ company_secret = "company-hmac-secret"

(***************************************************************************)
(* Environment                                                             *)
(***************************************************************************)
\* Time is read when a token is issued and when execute() starts
Tick ==
    /\ scope = "auth"
    /\ now < MaxTime
    /\ \A r \in Reqs : pc[r] \in {"idle", "posted"}
    /\ now' = now + 1
    /\ UNCHANGED <<offer_vars, call_vars, tz, scope, company_secret, AGENT_TOKENS, audit_log,
                   bank_handled, pc, msg, origin, auth_time, authenticated,
                   mode, events, responses, call, reply, sent, result>>

\* A direct call of auth_manager.generate_access_token, as
\* test_authentication.py makes to obtain a token (lines 84-90: the token
\* is stored in AGENT_TOKENS[client_id] when one is issued)
IssueToken(client_id, client_secret) ==
    LET token == generate_access_token(client_id, client_secret, now) IN
    /\ scope = "auth"
    /\ \A r \in Reqs : pc[r] = "idle"
    /\ AGENT_TOKENS' = IF token.wf THEN [AGENT_TOKENS EXCEPT ![client_id] = token]
                       ELSE AGENT_TOKENS
    /\ UNCHANGED <<offer_vars, call_vars, now, tz, scope, company_secret, audit_log,
                   bank_handled, pc, msg, origin, auth_time, authenticated,
                   mode, events, responses, call, reply, sent, result>>

IssuedTokens == {AGENT_TOKENS[c] : c \in ClientIds} \ {NoToken}

Usable(r) ==
    /\ pc[r] = "idle"
    /\ scope \in {"auth", "routing", "concurrent"}
    /\ (r = "r1" \/ scope = "concurrent")

\* Some client posts message m to the broker
ClientSend(r, m) ==
    /\ Usable(r)
    /\ msg' = [msg EXCEPT ![r] = m]
    /\ origin' = [origin EXCEPT ![r] = "client"]
    /\ pc' = [pc EXCEPT ![r] = "posted"]
    /\ UNCHANGED <<offer_vars, call_vars, now, tz, scope, company_secret, AGENT_TOKENS,
                   audit_log, bank_handled, auth_time, authenticated, mode,
                   events, responses, call, reply, sent, result>>

(***************************************************************************)
(* company_agent/agent.py                                                  *)
(***************************************************************************)
\* CompanyAgent._add_signature_to_message: the signature key is added when
\* the secret is found; otherwise the message is returned as it is.
_add_signature_to_message(m, secret) ==
    IF ~Truthy(secret) THEN m ELSE [m EXCEPT !.signature = secret]

\* The message_content send_credit_request_to_broker builds (lines 568-576)
CompanyCreditMessage(secret) ==
    _add_signature_to_message(
        Message("object", "", "<absent>", NoToken, "<absent>", "", "credit_intent",
                "present", "dict", "<absent>", "<absent>", "company-agent",
                "<absent>"),
        secret)

\* CompanyAgent.send_credit_request_to_broker, up to the post to the broker
CompanySend(r) ==
    /\ Usable(r)
    /\ msg' = [msg EXCEPT ![r] = CompanyCreditMessage(company_secret)]
    /\ origin' = [origin EXCEPT ![r] = "company"]
    /\ pc' = [pc EXCEPT ![r] = "posted"]
    /\ UNCHANGED <<offer_vars, call_vars, now, tz, scope, company_secret, AGENT_TOKENS,
                   audit_log, bank_handled, auth_time, authenticated, mode,
                   events, responses, call, reply, sent, result>>

\* The company agent holds no offers and has called no tool yet
AwaitingFirstResult ==
    /\ scope = "ranking"
    /\ best_offer = NoSelection
    /\ evaluation = NoEvaluation
    /\ received_offers = <<>>

\* The first broker result arrives: self.received_offers = offers (line 644)
ReceiveOffers(offers) ==
    /\ AwaitingFirstResult
    /\ offers # received_offers
    /\ received_offers' = offers
    /\ UNCHANGED <<evaluated_offers, scored_from, evaluation, best_offer, assessment>>
    /\ UNCHANGED <<call_vars, now, tz, scope, company_secret, AGENT_TOKENS,
                   audit_log, bank_handled, pc, msg, origin, auth_time,
                   authenticated, mode, events, responses, call, reply, sent,
                   result>>

\* The offers the company agent holds were evaluated and nothing was
\* selected yet
AwaitingLaterResult ==
    /\ scope = "ranking"
    /\ best_offer = NoSelection
    /\ evaluation.status = "success"
    /\ scored_from = received_offers

\* A later broker result arrives after the offers held were evaluated:
\* self.received_offers = offers (line 644) again.  Nothing else is
\* assigned: evaluated_offers keeps the evaluation of the earlier offers.
ReceiveLaterOffers(offers) ==
    /\ AwaitingLaterResult
    /\ offers # received_offers
    /\ received_offers' = offers
    /\ UNCHANGED <<evaluated_offers, scored_from, evaluation, best_offer, assessment>>
    /\ UNCHANGED <<call_vars, now, tz, scope, company_secret, AGENT_TOKENS,
                   audit_log, bank_handled, pc, msg, origin, auth_time,
                   authenticated, mode, events, responses, call, reply, sent,
                   result>>

\* CompanyAgent.evaluate_offers called with offers_data that is not a JSON
\* list, so that the stored offers are evaluated (lines 705-723); without
\* offers, or when the comparative view raises, it returns an error and
\* stores nothing.
EvaluateOffers ==
    /\ scope = "ranking"
    /\ best_offer = NoSelection
    /\ IF received_offers = <<>> \/ EvaluationFails(received_offers)
       THEN /\ evaluation' = [status |-> "error", offers |-> received_offers]
            /\ UNCHANGED <<evaluated_offers, scored_from>>
       ELSE /\ evaluated_offers' = evaluate_offers(received_offers)
            /\ scored_from' = received_offers
            /\ evaluation' = [status |-> "success", offers |-> received_offers]
    /\ UNCHANGED <<received_offers, best_offer, assessment>>
    /\ UNCHANGED <<call_vars, now, tz, scope, company_secret, AGENT_TOKENS,
                   audit_log, bank_handled, pc, msg, origin, auth_time,
                   authenticated, mode, events, responses, call, reply, sent,
                   result>>

\* CompanyAgent.select_best_offer
SelectBestOffer ==
    /\ scope = "ranking"
    /\ best_offer' = select_best_offer(evaluated_offers, received_offers)
    /\ UNCHANGED <<received_offers, evaluated_offers, scored_from, evaluation, assessment>>
    /\ UNCHANGED <<call_vars, now, tz, scope, company_secret, AGENT_TOKENS,
                   audit_log, bank_handled, pc, msg, origin, auth_time,
                   authenticated, mode, events, responses, call, reply, sent,
                   result>>

\* CompanyAgent.assess_counter_offer on the counter_offer of a negotiation
\* response: an accepted counter-offer is appended to received_offers
\* (lines 214-217).  Every counter-offer has an offer_id of its own (a
\* uuid4 suffix), so the company is not given the same one twice.
AssessCounterOffer(details) ==
    /\ scope = "ranking"
    /\ best_offer = NoSelection
    /\ received_offers # <<>>
    /\ Len(received_offers) <= MaxOffers
    /\ \A i \in 1..Len(received_offers) : received_offers[i] # details
    /\ received_offers' =
           IF assess_counter_offer(details) = "ACCEPT"
           THEN Append(received_offers, details)
           ELSE received_offers
    /\ assessment' =
           [status |-> IF assess_counter_offer(details) = "error"
                       THEN "error" ELSE "success",
            decision |-> assess_counter_offer(details),
            counter_offer |-> details,
            held |-> received_offers]
    /\ UNCHANGED <<evaluated_offers, scored_from, evaluation, best_offer>>
    /\ UNCHANGED <<call_vars, now, tz, scope, company_secret, AGENT_TOKENS,
                   audit_log, bank_handled, pc, msg, origin, auth_time,
                   authenticated, mode, events, responses, call, reply, sent,
                   result>>

(***************************************************************************)
(* bank agents: process_negotiation_request                                *)
(***************************************************************************)
\* The banks that have a negotiation engine
NegotiatingBanks == {"wells-fargo", "chase-bank", "bank-of-america"}

\* A bank's process_negotiation_request is called with a negotiation request
ProcessNegotiationRequest(bank, request) ==
    /\ scope = "negotiation"
    /\ negotiation = NoNegotiation
    /\ negotiation' = [bank |-> bank, request |-> request,
                       response |-> process_negotiation_request(bank, request)]
    /\ UNCHANGED <<verification, offer_vars, now, tz, scope, company_secret, AGENT_TOKENS,
                   audit_log, bank_handled, pc, msg, origin, auth_time,
                   authenticated, mode, events, responses, call, reply, sent,
                   result>>

(***************************************************************************)
(* signature_utils.py: a signature is made and verified                    *)
(***************************************************************************)
\* A sender signs `content` with sender_secret and attaches the signature;
\* the receiver gets `received` (the message as sent, or one with another
\* content, another signature or none), extracts the signature and
\* validates it against what is left with receiver_secret.
VerifyMessage(content, sender_secret, received, receiver_secret) ==
    LET extracted == extract_signature_from_message(received) IN
    /\ scope = "signing"
    /\ verification = NoVerification
    /\ verification' =
           [checked |-> TRUE, signed_content |-> content,
            signed_with |-> sender_secret,
            signed_as |-> generate_signature(content, sender_secret),
            received |-> received, received_after |-> received,
            content |-> extracted[1], signature |-> extracted[2],
            verified_with |-> receiver_secret,
            valid |-> validate_signature(extracted[1].content, extracted[2],
                                         receiver_secret)]
    /\ UNCHANGED <<negotiation, offer_vars, now, tz, scope, company_secret,
                   AGENT_TOKENS, audit_log, bank_handled, pc, msg, origin,
                   auth_time, authenticated, mode, events, responses, call,
                   reply, sent, result>>

\* What a receiver may get when `content` was signed with sender_secret
ReceivedMessages(content, sender_secret) ==
    {SignedMessage(c, has, sig) :
        c \in Contents, has \in BOOLEAN,
        sig \in {generate_signature(content, sender_secret),
                 generate_signature(content, "rogue-hmac-secret"),
                 EmptySignature}}

(***************************************************************************)
(* broker_agent/broker_executor.py: execute()                              *)
(***************************************************************************)
\* The tail of execute() (lines 660-714): aggregate bank_responses, build
\* response_data from the audit log as it is then, emit the broker_result
\* artifact and the completed status.
Complete(r, bank_responses, log, evs) ==
    LET aggregated_result == _aggregate_responses(bank_responses, r)
        log2 == LogAll(log, aggregated_result.audits)
    IN /\ audit_log' = log2
       /\ responses' = [responses EXCEPT ![r] = bank_responses]
       /\ result' = [result EXCEPT ![r] =
              [aggregated_result |-> aggregated_result,
               total_audit_entries |-> Len(log2),
               last_audit_entry |-> IF log2 = <<>> THEN NoEntry
                                    ELSE log2[Len(log2)]]]
       /\ events' = [events EXCEPT ![r] =
              evs \o <<"artifact:broker_result", "status:completed">>]
       /\ pc' = [pc EXCEPT ![r] = "done"]

\* An error reply that ends with the artifact
_send_auth_error_without_status(evs) == evs \o <<"artifact:auth_error">>

\* _send_auth_error (lines 573-598)
_send_auth_error(evs) == evs \o <<"artifact:auth_error", "status:failed">>

\* _handle_auth_token_request: the token issued, NoToken for an error reply
_handle_auth_token_request(m, t) ==
    IF m.path # "token" THEN NoToken                \* unsupported_grant_type
    ELSE IF ~Truthy(m.client_id) \/ ~Truthy(m.client_secret) THEN NoToken
    ELSE generate_access_token(m.client_id, m.client_secret, t)

\* execute() on a text that starts with "/auth/" (lines 616-630 and
\* _handle_auth_endpoints)
ExecuteAuthEndpoint(r) ==
    /\ pc[r] = "posted"
    /\ msg[r].kind = "auth_endpoint"
    /\ LET m == msg[r]
           evs == <<"status:working">>
           token == _handle_auth_token_request(m, now)
       IN /\ events' = [events EXCEPT ![r] =
                IF m.path = "token_badjson" THEN _send_auth_error(evs)
                ELSE IF m.path \in {"token", "token_badgrant"}
                THEN evs \o <<"artifact:auth_token_response", "status:completed">>
                ELSE IF m.path = "verify"
                THEN evs \o <<"artifact:auth_verify_response", "status:completed">>
                ELSE evs \o <<"status:completed">>]
          /\ AGENT_TOKENS' =
                IF m.path \in {"token", "token_badgrant"} /\ token.wf
                THEN [AGENT_TOKENS EXCEPT ![m.client_id] = token]
                ELSE AGENT_TOKENS
    /\ auth_time' = [auth_time EXCEPT ![r] = now]
    /\ pc' = [pc EXCEPT ![r] = "done"]
    /\ UNCHANGED <<offer_vars, call_vars, now, tz, scope, company_secret, audit_log,
                   bank_handled, msg, origin, authenticated, mode, responses,
                   call, reply, sent, result>>

\* execute() on a message without valid authentication (lines 616-637)
ExecuteAuthError(r) ==
    /\ pc[r] = "posted"
    /\ msg[r].kind # "auth_endpoint"
    /\ ~_extract_auth_from_message(msg[r], now, tz)
    /\ events' = [events EXCEPT ![r] = _send_auth_error(<<"status:working">>)]
    /\ auth_time' = [auth_time EXCEPT ![r] = now]
    /\ pc' = [pc EXCEPT ![r] = "done"]
    /\ UNCHANGED <<offer_vars, call_vars, now, tz, scope, company_secret, AGENT_TOKENS,
                   audit_log, bank_handled, msg, origin, authenticated, mode,
                   responses, call, reply, sent, result>>

\* execute() on an authenticated message, up to the first await of a post
\* (lines 616-658, _route_message, and the head of _route_to_banks /
\* _route_negotiation_to_bank); an unknown bank completes the request at once.
ExecuteRoute(r) ==
    /\ pc[r] = "posted"
    /\ msg[r].kind # "auth_endpoint"
    /\ _extract_auth_from_message(msg[r], now, tz)
    /\ LET m == msg[r]
           evs == <<"status:working">>
           log1 == _log_audit(audit_log, AuditEntry("message_received", "", r))
           branch == _route_message(m)
           broker_token == generate_access_token(BrokerClientId, BrokerClientSecret, now)
           bank_name == Lower(m.bank_name)
           endpoint_key == bank_endpoint_map(bank_name)
       IN /\ mode' = [mode EXCEPT ![r] = branch]
          /\ IF branch = "negotiation"
             THEN IF endpoint_key \notin EndpointKeys
                  THEN /\ Complete(r, <<Response(bank_name, "error", Body("", <<>>),
                                                 "Unknown bank")>>, log1, evs)
                       /\ UNCHANGED <<AGENT_TOKENS, call, sent>>
                  ELSE LET post == [bank |-> endpoint_key,
                                    env |-> BankMessage(broker_token, "negotiation_request",
                                                        ForwardedData(m), bank_name)]
                       IN /\ AGENT_TOKENS' = [AGENT_TOKENS EXCEPT ![BrokerClientId] = broker_token]
                          /\ audit_log' = _log_audit(log1, AuditEntry("negotiation_routing", bank_name, r))
                          /\ call' = [call EXCEPT ![r] = post]
                          /\ sent' = [sent EXCEPT ![r] = Append(@, post)]
                          /\ events' = [events EXCEPT ![r] = evs]
                          /\ pc' = [pc EXCEPT ![r] = "await_negotiation"]
                          /\ UNCHANGED <<responses, result>>
             ELSE LET post == [bank |-> bank_endpoints[1],
                               env |-> BankMessage(broker_token, "credit_intent",
                                                   ForwardedData(m), bank_endpoints[1])]
                  IN /\ AGENT_TOKENS' = [AGENT_TOKENS EXCEPT ![BrokerClientId] = broker_token]
                     /\ audit_log' = log1
                     /\ call' = [call EXCEPT ![r] = post]
                     /\ sent' = [sent EXCEPT ![r] = Append(@, post)]
                     /\ events' = [events EXCEPT ![r] = evs]
                     /\ pc' = [pc EXCEPT ![r] = "await_bank"]
                     /\ UNCHANGED <<responses, result>>
    /\ auth_time' = [auth_time EXCEPT ![r] = now]
    /\ authenticated' = [authenticated EXCEPT ![r] = TRUE]
    /\ UNCHANGED <<offer_vars, call_vars, now, tz, scope, company_secret, bank_handled, msg,
                   origin, reply>>

\* _route_to_banks resumed by the outcome of the post it awaits (lines
\* 265-315): record it, log it, and post to the next bank or, after the
\* last one, leave the `async with httpx.AsyncClient()` block, which awaits
\* the closing of the client.
BankReply(r) ==
    /\ pc[r] = "await_bank"
    /\ reply[r] # NoReply
    /\ LET bank == call[r].bank
           bank_responses == Append(responses[r], RouteRecord(bank, reply[r]))
           log1 == _log_audit(audit_log, AuditEntry(RouteAudit(bank, reply[r]), bank, r))
           i == NextBank(bank_responses)
       IN IF i <= Len(bank_endpoints)
          THEN LET post == [bank |-> bank_endpoints[i],
                            env |-> [call[r].env EXCEPT !.target_bank = bank_endpoints[i]]]
               IN /\ responses' = [responses EXCEPT ![r] = bank_responses]
                  /\ audit_log' = log1
                  /\ call' = [call EXCEPT ![r] = post]
                  /\ sent' = [sent EXCEPT ![r] = Append(@, post)]
                  /\ UNCHANGED <<pc, events, result>>
          ELSE /\ responses' = [responses EXCEPT ![r] = bank_responses]
               /\ audit_log' = log1
               /\ call' = [call EXCEPT ![r] = NoCall]
               /\ pc' = [pc EXCEPT ![r] = "closing"]
               /\ UNCHANGED <<sent, events, result>>
    /\ reply' = [reply EXCEPT ![r] = NoReply]
    /\ UNCHANGED <<offer_vars, call_vars, now, tz, scope, company_secret, AGENT_TOKENS,
                   bank_handled, msg, origin, auth_time, authenticated, mode>>

\* _route_negotiation_to_bank resumed by the outcome of its post (lines
\* 486-518).  A reply that can be read is logged and returned from inside
\* the `async with httpx.AsyncClient()` block (lines 490-501); an exception
\* leaves the block first and is logged by the handler after it (line 507).
\* Either way the closing of the client is awaited on the way out.
NegotiationReply(r) ==
    /\ pc[r] = "await_negotiation"
    /\ reply[r] # NoReply
    /\ LET bank == call[r].env.target_bank
           record == NegotiationRecord(bank, reply[r])
       IN /\ responses' = [responses EXCEPT ![r] = <<record>>]
          /\ audit_log' =
                 IF record.status = "success"
                 THEN _log_audit(audit_log, AuditEntry(NegotiationAudit(bank, reply[r]), bank, r))
                 ELSE audit_log
    /\ call' = [call EXCEPT ![r] = NoCall]
    /\ reply' = [reply EXCEPT ![r] = NoReply]
    /\ pc' = [pc EXCEPT ![r] = "closing"]
    /\ UNCHANGED <<offer_vars, call_vars, now, tz, scope, company_secret, AGENT_TOKENS,
                   bank_handled, msg, origin, auth_time, authenticated, mode,
                   sent, events, result>>

\* The client is closed and the routing function returns: the handler of
\* _route_negotiation_to_bank logs the exception it caught, then the tail
\* of execute() runs (lines 660-714) without another await before
\* response_data is built.
ClientClosed(r) ==
    /\ pc[r] = "closing"
    /\ LET log1 == IF mode[r] = "negotiation" /\ responses[r][1].status = "error"
                   THEN _log_audit(audit_log, AuditEntry("negotiation_error", responses[r][1].bank, r))
                   ELSE audit_log
       IN Complete(r, responses[r], log1, events[r])
    /\ UNCHANGED <<offer_vars, call_vars, now, tz, scope, company_secret, AGENT_TOKENS,
                   bank_handled, msg, origin, auth_time, authenticated, mode,
                   sent, call, reply>>

(***************************************************************************)
(* The bank agents (wells_fargo_agent, boa_agent, chase_bank) and the      *)
(* transport                                                               *)
(***************************************************************************)
\* What a bank's stream() answers to the text it is given: the text is the
\* broker's message, whose top-level "action" decides between the
\* negotiation engine and the LLM agent.  Nothing in the message is
\* verified before it is acted on.
StreamContents(env) ==
    IF env.action = "negotiate_offer" THEN {"json_dict", "text"}
    ELSE {"offer", "json_dict", "text"}

\* The part of stream() that handles the text: process_negotiation_request
\* when the parsed text has "action": "negotiate_offer" at its top level
\* (line 602), the LLM agent (self._runner.run_async) otherwise
StreamEngine(env) ==
    IF env.action = "negotiate_offer" THEN "process_negotiation_request"
    ELSE "llm_agent"

\* The replies of the bank agents a scenario explores
ScenarioContents(scenario) ==
    IF scenario = "concurrent" THEN {"offer"} ELSE PartKinds

\* <Bank>AgentExecutor.execute: the addressed bank handles the posted
\* message and answers with one artifact holding one text part
BankStream(r, content) ==
    /\ call[r] # NoCall
    /\ reply[r] = NoReply
    /\ content \in StreamContents(call[r].env) \cap ScenarioContents(scope)
    /\ bank_handled' = bank_handled \cup
           {[bank |-> call[r].bank, env |-> call[r].env, by |-> r,
             engine |-> StreamEngine(call[r].env)]}
    /\ reply' = [reply EXCEPT ![r] = Outcome("http", 200, Body("result", <<content>>))]
    /\ UNCHANGED <<offer_vars, call_vars, now, tz, scope, company_secret, AGENT_TOKENS,
                   audit_log, pc, msg, origin, auth_time, authenticated, mode,
                   events, responses, call, sent, result>>

\* Outcomes of a post that the bank's handler does not produce: a timeout or
\* connection failure, a non-2xx reply, a reply that is not the JSON-RPC
\* result of one text part
EndpointOutcomes(scenario) ==
    IF scenario \in {"auth", "concurrent"} THEN {Outcome("exception", 0, Body("", <<>>))}
    ELSE
    {Outcome("exception", 0, Body("", <<>>)),
     Outcome("http", 500, Body("no_result", <<>>)),
     Outcome("http", 500, Body("not_json", <<>>)),
     Outcome("http", 200, Body("not_json", <<>>)),
     Outcome("http", 200, Body("no_result", <<>>)),
     Outcome("http", 200, Body("null", <<>>)),
     Outcome("http", 200, Body("result", <<>>)),
     Outcome("http", 200, Body("result", <<"json_scalar">>)),
     Outcome("http", 200, Body("result", <<"offer", "text">>))}

EndpointOutcome(r, o) ==
    /\ call[r] # NoCall
    /\ reply[r] = NoReply
    /\ reply' = [reply EXCEPT ![r] = o]
    /\ UNCHANGED <<offer_vars, call_vars, now, tz, scope, company_secret, AGENT_TOKENS,
                   audit_log, bank_handled, pc, msg, origin, auth_time,
                   authenticated, mode, events, responses, call, sent, result>>

(***************************************************************************)
(* Specification                                                           *)
(***************************************************************************)
Next ==
    \/ Tick
    \/ \E c \in {"company-agent", "rogue-agent"},
          cs \in {"company-secret-456", "guess"} : IssueToken(c, cs)
    \/ \E r \in Reqs :
          Usable(r) /\ \E m \in Messages(scope, IssuedTokens) : ClientSend(r, m)
    \/ \E r \in Reqs : CompanySend(r)
    \/ AwaitingFirstResult
          /\ \E offers \in FirstOfferLists : ReceiveOffers(offers)
    \/ AwaitingLaterResult
          /\ \E offers \in LaterOfferLists : ReceiveLaterOffers(offers)
    \/ EvaluateOffers
    \/ SelectBestOffer
    \/ \E details \in CounterOfferPool : AssessCounterOffer(details)
    \/ scope = "negotiation"
          /\ \E bank \in NegotiatingBanks :
                \E request \in NegotiationRequests(bank) :
                    ProcessNegotiationRequest(bank, request)
    \/ scope = "signing"
          /\ \E content \in Contents, sender_secret \in Secrets, receiver_secret \in Secrets :
                \E received \in ReceivedMessages(content, sender_secret) :
                    VerifyMessage(content, sender_secret, received, receiver_secret)
    \/ \E r \in Reqs : ExecuteAuthEndpoint(r)
    \/ \E r \in Reqs : ExecuteAuthError(r)
    \/ \E r \in Reqs : ExecuteRoute(r)
    \/ \E r \in Reqs : \E content \in PartKinds : BankStream(r, content)
    \/ \E r \in Reqs : \E o \in EndpointOutcomes(scope) : EndpointOutcome(r, o)
    \/ \E r \in Reqs : BankReply(r)
    \/ \E r \in Reqs : NegotiationReply(r)
    \/ \E r \in Reqs : ClientClosed(r)

Spec == Init /\ [][Next]_vars

\* The scoring and the negotiation engines on their own: one offer with
\* every combination of the risk flags is scored, every bank answers every
\* negotiation request of the model, and a signature is made and verified.
FlagOffers ==
    {Offer("F-1", "Chase Bank", 950000, rate, 50, 50, 5000, 80, 20, flags, {}, {}) :
        rate \in {600, 650},
        flags \in SUBSET {"collateral", "guarantee", "prepayment"}}

FunctionInit ==
    /\ InitCommon
    /\ tz = 0
    /\ company_secret = "company-hmac-secret"
    /\ scope \in {"ranking", "negotiation", "signing"}

FunctionNext ==
    \/ AwaitingFirstResult
          /\ \E offer \in FlagOffers : ReceiveOffers(<<offer>>)
    \/ EvaluateOffers
    \/ \E details \in AssessedOffers : AssessCounterOffer(details)
    \/ scope = "negotiation"
          /\ \E bank \in NegotiatingBanks :
                \E request \in NegotiationRequests(bank) :
                    ProcessNegotiationRequest(bank, request)
    \/ scope = "signing"
          /\ \E content \in Contents, sender_secret \in Secrets, receiver_secret \in Secrets :
                \E received \in ReceivedMessages(content, sender_secret) :
                    VerifyMessage(content, sender_secret, received, receiver_secret)

FunctionSpec == FunctionInit /\ [][FunctionNext]_vars

(***************************************************************************)
(* Properties                                                              *)
(***************************************************************************)
Started(r) == auth_time[r] >= 0

\* execute() has run on a message that goes through authentication
Checked(r) == Started(r) /\ msg[r].kind # "auth_endpoint"

AuthErrorEvents == <<"status:working", "artifact:auth_error", "status:failed">>

ResultEvents == <<"status:working", "artifact:broker_result", "status:completed">>

\* The number of posts request r made to bank
Posts(r, bank) == Cardinality({i \in 1..Len(sent[r]) : sent[r][i].bank = bank})

\* The number of response records request r holds for bank
Records(r, bank) ==
    Cardinality({i \in 1..Len(responses[r]) : responses[r][i].bank = bank})

\* Nothing of request r went past authentication
NotRouted(r) ==
    /\ mode[r] = ""
    /\ sent[r] = <<>>
    /\ responses[r] = <<>>
    /\ result[r] = NoResponseData
    /\ \A h \in bank_handled : h.by # r

\* The credential of m is absent or invalid at time t: the body is not a
\* JSON object, there is no token, it lacks the "Bearer " prefix, it is not
\* a token signed with the broker's key, or it has expired
CredentialAbsentOrInvalid(m, t) ==
    \/ m.kind # "object"
    \/ m.auth_form # "bearer"
    \/ ~m.token.wf
    \/ m.token.key # jwt_secret
    \/ m.token.exp < t

\* C1: a message whose authentication is absent or invalid is answered
\* with the working status, an auth_error artifact and a failed status, and
\* never reaches routing or aggregation nor any bank.
C1_FailClosedRouting ==
    \A r \in Reqs :
        Checked(r) /\ CredentialAbsentOrInvalid(msg[r], auth_time[r])
        => /\ pc[r] = "done"
           /\ events[r] = AuthErrorEvents
           /\ ~authenticated[r]
           /\ NotRouted(r)

C1_Witness ==
    \E r \in Reqs :
        /\ Checked(r)
        /\ msg[r].auth_form = "bearer"
        /\ msg[r].token.key # jwt_secret
        /\ events[r] = AuthErrorEvents

\* C2: a credit intent sent by the company agent through
\* send_credit_request_to_broker passes the broker's verification and is
\* fanned out to every bank, the aggregate being returned.
C2_CompanyIntentRouted ==
    \A r \in Reqs :
        origin[r] = "company" /\ pc[r] = "done"
        => /\ events[r] = ResultEvents
           /\ \A bank \in EndpointKeys : Posts(r, bank) = 1

\* Tokens generate_access_token issues for configured clients
IssuedByAuthManager ==
    {generate_access_token(c, valid_clients[c], t) : c \in ClientIds, t \in Times}

\* C3: a token issued by generate_access_token, presented as a Bearer
\* token with the matching client_id before it expires, is accepted and the
\* request ends with a broker_result artifact and a completed status.
C3_TokenRoundTrip ==
    \A r \in Reqs :
        /\ Checked(r) /\ pc[r] = "done"
        /\ msg[r].kind = "object" /\ msg[r].auth_form = "bearer"
        /\ msg[r].token \in IssuedByAuthManager
        /\ msg[r].client_id = msg[r].token.client_id
        /\ auth_time[r] < msg[r].token.exp
        => /\ authenticated[r]
           /\ events[r] = ResultEvents

\* C4: every authentication failure at the broker appends an entry to the
\* broker's audit log.
C4_AuthFailureAudited ==
    \A r \in Reqs :
        Checked(r) /\ events[r] = AuthErrorEvents
        => \E i \in 1..Len(audit_log) : audit_log[i].by = r

\* C5: a message carrying a token that is valid for client A (signed with
\* the broker's key, not expired) but declaring another client_id B is
\* answered with auth_error and routed to no bank.
C5_ClientIdMismatchRejected ==
    \A r \in Reqs :
        /\ Checked(r)
        /\ msg[r].kind = "object" /\ msg[r].auth_form = "bearer"
        /\ msg[r].token.wf /\ msg[r].token.key = jwt_secret
        /\ Truthy(msg[r].client_id)
        /\ msg[r].client_id # msg[r].token.client_id
        => /\ events[r] = AuthErrorEvents
           /\ NotRouted(r)

C5_Witness ==
    \E r \in Reqs :
        /\ Checked(r)
        /\ validate_token(msg[r].token, auth_time[r], tz)
        /\ msg[r].token.client_id = "company-agent"
        /\ msg[r].client_id = "rogue-agent"
        /\ events[r] = AuthErrorEvents

\* C6: a token whose expiry time is in the past is rejected by
\* validate_token and the message carrying it is answered with auth_error;
\* a token is accepted only while the time is not after its exp.
C6_ExpiredTokenRejected ==
    /\ \A tok \in ForgedTokens \cup IssuedByAuthManager :
          \A t \in Times :
              tok.wf /\ tok.exp < t => ~validate_token(tok, t, tz)
    /\ \A r \in Reqs :
          Checked(r) /\ msg[r].kind = "object" /\ msg[r].auth_form = "bearer"
          => /\ msg[r].token.exp < auth_time[r]
                => events[r] = AuthErrorEvents /\ NotRouted(r)
             /\ authenticated[r] => auth_time[r] <= msg[r].token.exp

C6_Witness ==
    \E r \in Reqs :
        /\ Checked(r)
        /\ msg[r].auth_form = "bearer"
        /\ msg[r].token.wf /\ msg[r].token.key = jwt_secret
        /\ msg[r].token.aud = "<absent>"
        /\ msg[r].token.exp < auth_time[r]
        /\ events[r] = AuthErrorEvents

\* C7: an envelope that lacks client_id or timestamp is answered with
\* auth_error and is routed to no bank.
C7_MissingFieldsRejected ==
    \A r \in Reqs :
        /\ Checked(r) /\ msg[r].kind = "object"
        /\ (msg[r].client_id = "<absent>" \/ msg[r].timestamp = "<absent>")
        => /\ ~authenticated[r]
           /\ sent[r] = <<>>

\* The secret the broker's HMAC signature is made with
BrokerSigningSecret == "broker-hmac-secret"

\* C8: no recipient acts on a message before its signature has been
\* validated against the sender's key: every message a bank has handled,
\* and every message the broker has routed, carries its sender's signature.
C8_SignatureCheckedBeforeUse ==
    /\ \A h \in bank_handled : h.env.signature = BrokerSigningSecret
    /\ \A r \in Reqs :
          authenticated[r] /\ origin[r] = "company"
          => msg[r].signature = "company-hmac-secret"

\* A message that carries a credit intent: its type says so and its payload
\* is not a negotiation request
IsCreditIntent(m) == m.message_type = "credit_intent" /\ m.action # "negotiate_offer"

C10_NegotiationNotFannedOut ==
    \A r \in Reqs :
        authenticated[r] /\ msg[r].message_type = "negotiation_request"
        => /\ Len(sent[r]) <= 1
           /\ \A i \in 1..Len(sent[r]) :
                 sent[r][i].bank = bank_endpoint_map(Lower(msg[r].bank_name))

\* bank_name values that neither bank_endpoint_map nor bank_endpoints know
UnknownBankNames == {"<absent>", "Citibank"}

\* C11: a targeted negotiation naming a bank that is not in the endpoint
\* table completes without any post to a bank, and its result holds one
\* error naming that bank, no offer and no text response.
C11_UnknownBankReported ==
    \A r \in Reqs :
        /\ authenticated[r] /\ mode[r] = "negotiation"
        /\ msg[r].bank_name \in UnknownBankNames
        => /\ pc[r] = "done"
           /\ sent[r] = <<>>
           /\ \A h \in bank_handled : h.by # r
           /\ events[r] = ResultEvents
           /\ result[r].aggregated_result.errors =
                  <<[bank |-> Lower(msg[r].bank_name), kind |-> "Unknown bank"]>>
           /\ result[r].aggregated_result.offers = <<>>
           /\ result[r].aggregated_result.text_responses = <<>>

C11_Witness ==
    \E r \in Reqs :
        /\ authenticated[r] /\ mode[r] = "negotiation"
        /\ msg[r].bank_name = "Citibank"
        /\ pc[r] = "done"
        /\ result[r].aggregated_result.failed_responses = 1

\* Request r was authenticated and sent to every bank (the else branch
\* or the except branch of _route_message) and has completed
BroadcastDone(r) ==
    authenticated[r] /\ mode[r] \in {"broadcast", "fallback"} /\ pc[r] = "done"

\* The number of entries bank has in a bucket
InBucket(bucket, bank) ==
    Cardinality({i \in 1..Len(bucket) : bucket[i].bank = bank})

\* C12: in the aggregate of a broadcast every bank is in exactly one of
\* offers, text_responses and errors, the three sizes add up to total_banks
\* (the number of endpoints), and successful_responses + failed_responses
\* = total_banks, whatever each bank replied.
C12_BroadcastComplete ==
    \A r \in Reqs :
        BroadcastDone(r)
        => LET a == result[r].aggregated_result IN
           /\ a.total_banks = Len(bank_endpoints)
           /\ Len(a.offers) + Len(a.text_responses) + Len(a.errors) = a.total_banks
           /\ a.successful_responses + a.failed_responses = a.total_banks
           /\ \A bank \in EndpointKeys :
                 InBucket(a.offers, bank) + InBucket(a.text_responses, bank)
                     + InBucket(a.errors, bank) = 1

\* The bucket a text part of kind p is expected in
BucketOf(a, p) == IF p = "text" THEN a.text_responses ELSE a.offers

\* C13: in a broadcast a failed post (exception, timeout, non-200 reply)
\* stops neither the posts to the remaining banks nor the return of their
\* results: the request completes with a broker_result that has a record
\* for every bank, every failure under errors and every other bank's
\* offer or text in its bucket.
C13_PartialResultsReturned ==
    \A r \in Reqs :
        authenticated[r] /\ mode[r] \in {"broadcast", "fallback"}
        => /\ pc[r] \in {"await_bank", "closing", "done"}
           /\ pc[r] = "await_bank" => Len(sent[r]) = Len(responses[r]) + 1
           /\ pc[r] = "done"
              => LET a == result[r].aggregated_result IN
                 /\ events[r] = ResultEvents
                 /\ Len(responses[r]) = Len(bank_endpoints)
                 /\ \A i \in 1..Len(responses[r]) :
                       LET rec == responses[r][i] IN
                       /\ rec.bank = bank_endpoints[i]
                       /\ rec.status = "error"
                          => \E e \in 1..Len(a.errors) :
                                a.errors[e] = [bank |-> rec.bank, kind |-> rec.error]
                       /\ rec.status = "success" /\ rec.body.shape = "result"
                          => \A j \in 1..Len(rec.body.parts) :
                                (\A k \in 1..j : rec.body.parts[k] # "json_scalar")
                                => \E e \in 1..Len(BucketOf(a, rec.body.parts[j])) :
                                      BucketOf(a, rec.body.parts[j])[e] =
                                          [bank |-> rec.bank, kind |-> rec.body.parts[j]]

C13_Witness ==
    \E r \in Reqs :
        /\ BroadcastDone(r)
        /\ responses[r][1].status = "error"
        /\ responses[r][2].status = "success"
        /\ responses[r][3].status = "error"
        /\ InBucket(result[r].aggregated_result.offers, bank_endpoints[2]) = 1
        /\ InBucket(result[r].aggregated_result.errors, bank_endpoints[1]) = 1

\* C14: in a broadcast the posts to the banks are in flight together: while
\* the broker waits for a bank's response, the request to every other bank
\* has been issued already.
C14_BroadcastConcurrent ==
    \A r \in Reqs :
        /\ authenticated[r] /\ mode[r] \in {"broadcast", "fallback"}
        /\ pc[r] = "await_bank" /\ reply[r] = NoReply
        => \A bank \in EndpointKeys : Posts(r, bank) = 1

\* C15: the record made from a bank reply with a non-2xx status is an error
\* record, in broadcast routing and in targeted-negotiation routing, and
\* the bank is then under errors in the aggregate.
C15_Non2xxIsError ==
    [][\A r \in Reqs :
          /\ reply[r].kind = "http" /\ reply[r].status \notin 200..299
          /\ Len(responses'[r]) = Len(responses[r]) + 1
          => /\ responses'[r][Len(responses'[r])].status = "error"
             /\ pc'[r] = "done"
                => InBucket(result'[r].aggregated_result.errors, call[r].bank) = 1]_vars

\* C16: a negotiation request the broker routes to a bank is handled by
\* that bank's counter-offer engine (process_negotiation_request, which
\* calls generate_counter_offer).
C16_NegotiationHandledByEngine ==
    \A h \in bank_handled :
        h.env.message_type = "negotiation_request"
        => h.engine = "process_negotiation_request"

\* C17: only a reply that parses as a structured bank offer is placed in
\* offers; plain text and JSON that is not an offer are placed in
\* text_responses.
C17_OffersAreBankOffers ==
    \A r \in Reqs :
        authenticated[r] /\ pc[r] = "done"
        => LET a == result[r].aggregated_result IN
           /\ \A i \in 1..Len(a.offers) : a.offers[i].kind = "offer"
           /\ \A i \in 1..Len(responses[r]) :
                 LET rec == responses[r][i] IN
                 rec.status = "success" /\ rec.body.shape = "result"
                 => \A j \in 1..Len(rec.body.parts) :
                       rec.body.parts[j] \in {"json_dict", "json_scalar", "text"}
                       => InBucket(a.text_responses, rec.bank) >= 1

\* The entries of the audit log that request r's execution appended
TrailOf(r) == SelectSeq(audit_log, LAMBDA e : e.by = r)

\* The audit action of a record _route_to_banks returned
RecordAudit(rec) ==
    IF rec.status = "success" THEN "bank_routing_success"
    ELSE IF rec.error = "HTTP" THEN "bank_routing_error"
    ELSE "bank_routing_exception"

\* One entry per _log_audit call request r has made so far, in call order
ExpectedTrail(r) ==
    IF ~authenticated[r] THEN <<>>
    ELSE <<AuditEntry("message_received", "", r)>>
         \o (IF mode[r] = "negotiation"
              THEN IF sent[r] = <<>> THEN <<>>
                   ELSE <<AuditEntry("negotiation_routing", sent[r][1].env.target_bank, r)>>
                        \o (IF responses[r] = <<>> THEN <<>>
                            ELSE IF responses[r][1].status = "success"
                            THEN <<AuditEntry("negotiation_response_received",
                                              responses[r][1].bank, r)>>
                            ELSE IF pc[r] = "done"
                            THEN <<AuditEntry("negotiation_error",
                                              responses[r][1].bank, r)>>
                            ELSE <<>>)
              ELSE [i \in 1..Len(responses[r]) |->
                       AuditEntry(RecordAudit(responses[r][i]), responses[r][i].bank, r)])
         \o result[r].aggregated_result.audits

\* C18: the audit log only grows.  Under every interleaving of the requests
\* each step leaves the existing entries in place and unchanged, and the log
\* holds, for every request, exactly one entry per _log_audit call made
\* for it, in the order of the calls.
C18_AuditLogAppendOnly ==
    /\ [](\A r \in Reqs : TrailOf(r) = ExpectedTrail(r))
    /\ [][/\ Len(audit_log') >= Len(audit_log)
          /\ SubSeq(audit_log', 1, Len(audit_log)) = audit_log]_vars

\* Two requests whose entries alternate in the log
C18_Witness ==
    \E i, j, k \in 1..Len(audit_log) :
        /\ i < j /\ j < k
        /\ audit_log[i].by = "r1" /\ audit_log[j].by = "r2" /\ audit_log[k].by = "r1"
        /\ audit_log[j].action = "bank_routing_success"
        /\ audit_log[k].action = "bank_routing_exception"

\* The audit actions that record a failure at a bank endpoint
FailureActions == {"bank_routing_error", "bank_routing_exception",
                   "negotiation_error", "routing_error", "parse_error"}

\* C19: the trail of an authenticated, completed request has the
\* message_received entry and, for every failure reported under errors
\* (transport failures, routing errors, reply-parse failures), an entry
\* that records the failure of that bank.
C19_EveryTransitionAudited ==
    \A r \in Reqs :
        authenticated[r] /\ pc[r] = "done"
        => LET a == result[r].aggregated_result
               trail == TrailOf(r)
           IN /\ \E i \in 1..Len(trail) : trail[i].action = "message_received"
              /\ \A e \in 1..Len(a.errors) :
                    \E i \in 1..Len(trail) :
                        /\ trail[i].bank = a.errors[e].bank
                        /\ trail[i].action \in FailureActions

\* The place of an offer in a list of different offers
Pos(list, offer) == CHOOSE i \in 1..Len(list) : list[i] = offer

\* The offer ids of a list of scored offers, in order
ScoredIds(evaluated) == [i \in 1..Len(evaluated) |-> evaluated[i].offer.offer_id]

C21_OneEntryPerOffer ==
    evaluation.status # "none" /\ evaluation.offers # <<>> =>
        /\ evaluation.status = "success"
        /\ Len(evaluated_offers) = Len(evaluation.offers)
        /\ \A i \in 1..Len(evaluation.offers) :
               \E j \in 1..Len(evaluated_offers) :
                   evaluated_offers[j].offer = evaluation.offers[i]

\* What an entry of evaluated_offers says beyond the offer it repeats
Scores(e) == [k \in DOMAIN e \ {"offer"} |-> e[k]]

\* The offer with every missing key present, holding the default
WithAllFields(offer) == [offer EXCEPT !.missing_fields = {}]

\* C22: an offer scored with defaulted (missing) fields is annotated as
\* incomplete in the output, separately from its numeric score: what its
\* entry says beyond the offer differs from the entry of the complete
\* offer that holds the same numbers.
C22_DefaultedOfferAnnotated ==
    \A i \in 1..Len(evaluated_offers) :
        evaluated_offers[i].offer.missing_fields # {} =>
            Scores(evaluated_offers[i])
                # Scores(ScoredOffer(WithAllFields(evaluated_offers[i].offer)))

\* C27: a sender never emits an unsigned message: every message the company
\* agent has posted to the broker carries its HMAC signature; without the
\* secret nothing is posted.
C27_NoUnsignedMessageSent ==
    \A r \in Reqs :
        origin[r] = "company" /\ pc[r] # "idle" =>
            /\ Truthy(company_secret)
            /\ msg[r].signature = company_secret

\* Two offers that differ in nothing but offer_id and origination_fee
SameButFee(a, b) ==
    [a EXCEPT !.offer_id = "", !.origination_fee = 0]
        = [b EXCEPT !.offer_id = "", !.origination_fee = 0]

\* C29: the effective_rate that enters composite_score includes the
\* origination fee: of two offers that differ only in origination_fee, the
\* one with the higher fee has the higher effective_rate and
\* composite_score and is not ranked ahead of the other.
C29_FeeRaisesEffectiveRate ==
    \A i, j \in 1..Len(evaluated_offers) :
        LET a == evaluated_offers[i]
            b == evaluated_offers[j]
        IN SameButFee(a.offer, b.offer)
             /\ a.offer.origination_fee > b.offer.origination_fee
           => /\ a.effective_rate > b.effective_rate
              /\ a.composite_score > b.composite_score
              /\ j < i

\* A bank has answered a negotiation request with a counter-offer
CounterOffered == negotiation.response.status = "success"

\* The largest rate reduction each bank grants, in hundredths of a percent
MaxRateReduction ==
    [b \in NegotiatingBanks |->
        CASE b = "wells-fargo" -> 50 [] b = "chase-bank" -> 60 [] OTHER -> 75]

\* C23: every counter-offer is within the bank's bounds: the rate in
\* [original - max reduction, original], the credit limit in [original,
\* original + max increase], the origination fee in [original - max fee
\* reduction, original] and the periods within the bank's month bounds,
\* however far outside the window the request is.
C23_CounterOfferWithinBounds ==
    CounterOffered /\ negotiation.request.original_offer.present =>
        LET p == Policy(negotiation.bank)
            original == negotiation.request.original_offer
            counter == negotiation.response.counter_offer
            schedule == negotiation.response.line_of_credit_schedule
        IN /\ counter.interest_rate <= original.interest_rate
           /\ counter.interest_rate
                 >= original.interest_rate - MaxRateReduction[negotiation.bank]
           /\ counter.approved_credit_limit >= original.approved_credit_limit
           /\ 100 * counter.approved_credit_limit
                 <= (100 + p.max_amount_increase) * original.approved_credit_limit
           /\ counter.origination_fee <= original.origination_fee
           /\ 100 * counter.origination_fee
                 >= (100 - p.max_fee_reduction) * original.origination_fee
           /\ schedule.draw_period_months >= p.draw_period[1]
           /\ schedule.draw_period_months <= p.draw_period[2]
           /\ schedule.repayment_period_months >= p.repayment_period[1]
           /\ schedule.repayment_period_months <= p.repayment_period[2]

\* C24: when the requested rate is below original - max reduction, the
\* counter-offer's rate is exactly original - max reduction (0.5 for Wells
\* Fargo, 0.6 for Chase, 0.75 for Bank of America).
C24_RateFloor ==
    LET request == negotiation.request
        original_rate ==
            IF request.original_offer.present
            THEN request.original_offer.interest_rate
            ELSE Policy(negotiation.bank).default_rate
        floor == original_rate - MaxRateReduction[negotiation.bank]
    IN /\ negotiation.bank \in NegotiatingBanks
       /\ request.negotiation_terms.requested_interest_rate > 0
       /\ request.negotiation_terms.requested_interest_rate < floor
       => /\ CounterOffered
          /\ negotiation.response.counter_offer.interest_rate = floor

\* C25: a negotiable field with no requested change keeps the original
\* offer's value in the counter-offer: interest rate, origination fee,
\* credit limit, draw period and repayment period.
C25_UnrequestedTermsUnchanged ==
    CounterOffered /\ negotiation.request.original_offer.present =>
        LET terms == negotiation.request.negotiation_terms
            original == negotiation.request.original_offer
            counter == negotiation.response.counter_offer
            schedule == negotiation.response.line_of_credit_schedule
        IN /\ terms.requested_interest_rate = 0
                => counter.interest_rate = original.interest_rate
           /\ terms.requested_origination_fee = 0
                => counter.origination_fee = original.origination_fee
           /\ terms.requested_credit_limit = 0
                => counter.approved_credit_limit = original.approved_credit_limit
           /\ terms.requested_draw_period_months = 0
                => schedule.draw_period_months
                     = original.line_of_credit_schedule.draw_period_months
           /\ terms.requested_repayment_period_months = 0
                => schedule.repayment_period_months
                     = original.line_of_credit_schedule.repayment_period_months

\* The risk penalty of each of the eight flag combinations, in hundredths
PenaltyOf(collateral, guarantee, prepayment) ==
    CASE collateral /\ guarantee /\ prepayment -> 100
      [] collateral /\ guarantee /\ ~prepayment -> 80
      [] collateral /\ ~guarantee /\ prepayment -> 70
      [] collateral /\ ~guarantee /\ ~prepayment -> 50
      [] ~collateral /\ guarantee /\ prepayment -> 50
      [] ~collateral /\ guarantee /\ ~prepayment -> 30
      [] ~collateral /\ ~guarantee /\ prepayment -> 20
      [] OTHER -> 0

\* C30: risk_penalty is 0.5 for collateral_required plus 0.3 for
\* personal_guarantee_required plus 0.2 for prepayment_penalty, for all
\* eight flag combinations, and composite_score is effective_rate plus
\* risk_penalty.
C30_RiskPenaltyAdditive ==
    \A i \in 1..Len(evaluated_offers) :
        LET e == evaluated_offers[i]
        IN /\ e.risk_penalty
                = PenaltyOf(e.offer.collateral_required,
                            e.offer.personal_guarantee_required,
                            e.offer.prepayment_penalty)
           /\ e.composite_score = e.effective_rate + e.risk_penalty

\* An offer with all three flags was scored: 6.1 + 1.0
C30_Witness ==
    \E i \in 1..Len(evaluated_offers) :
        /\ evaluated_offers[i].offer.collateral_required
        /\ evaluated_offers[i].offer.personal_guarantee_required
        /\ evaluated_offers[i].offer.prepayment_penalty
        /\ evaluated_offers[i].effective_rate = 610
        /\ evaluated_offers[i].composite_score = 710

\* The offer is a counter-offer of a bank's negotiation engine
IsCounterOffer(offer) ==
    offer.offer_id \in {Policy(b).prefix : b \in NegotiatingBanks}

\* C28: received_offers holds at most one offer per bank: an accepted
\* counter-offer replaces the earlier offer of its bank.
C28_OneOfferPerBank ==
    \A i, j \in 1..Len(received_offers) :
        i # j /\ IsCounterOffer(received_offers[j])
            => received_offers[i].bank_name # received_offers[j].bank_name

\* Two dicts are equal: they hold the same pairs
SameContent(c1, c2) ==
    {c1[i] : i \in 1..Len(c1)} = {c2[i] : i \in 1..Len(c2)}

C31_BestOfferIsCurrent ==
    best_offer.status = "success" =>
        \E i \in 1..Len(received_offers) :
            received_offers[i].offer_id = best_offer.offer_id

\* The request was routed to one bank / to every bank
Targeted(r) == mode[r] = "negotiation"

Broadcast(r) == mode[r] \in {"broadcast", "fallback"}

\* C32: an authenticated message is routed in broadcast mode exactly when
\* its message_type is credit_intent and in targeted mode exactly when its
\* message_type is negotiation_request, whatever its payload holds (an
\* "action" key for instance).  Stated for the two message types named.
C32_RoutingByMessageType ==
    \A r \in Reqs :
        /\ authenticated[r] /\ mode[r] # ""
        /\ msg[r].message_type \in {"credit_intent", "negotiation_request"}
        => /\ Broadcast(r) <=> msg[r].message_type = "credit_intent"
           /\ Targeted(r) <=> msg[r].message_type = "negotiation_request"

\* The offer has no usable approved_credit_limit / has every field
LimitDefaulted(offer) ==
    "approved_credit_limit" \in offer.missing_fields \/ offer.approved_credit_limit = 0

CompleteOffer(offer) ==
    offer.missing_fields = {} /\ offer.null_fields = {} /\ offer.approved_credit_limit > 0

\* C33: an offer scored with defaulted fields because its
\* approved_credit_limit is missing or zero is never ranked ahead of an
\* offer with complete information, and is not the offer selected when a
\* complete one was evaluated with it.
C33_IncompleteNotRankedAhead ==
    /\ \A i, j \in 1..Len(evaluated_offers) :
           LimitDefaulted(evaluated_offers[i].offer)
             /\ CompleteOffer(evaluated_offers[j].offer)
           => j < i
    /\ best_offer.status = "success" /\ best_offer.scored
       => \/ ~LimitDefaulted(evaluated_offers[1].offer)
          \/ \A j \in 1..Len(evaluated_offers) :
                 ~CompleteOffer(evaluated_offers[j].offer)

\* C34: assess_counter_offer decides ACCEPT when 5 or 6 of its six criteria
\* are met (at least 80%), CONSIDER when 4 are (60-79%) and REJECT when 3
\* or fewer are; only on ACCEPT is the counter-offer added to
\* received_offers, on CONSIDER, REJECT or an error received_offers is
\* left as it was.
C34_AssessmentThresholds ==
    assessment.status # "none" =>
        LET n == criteria_met(assessment.counter_offer) IN
        /\ assessment.status = "success" =>
               assessment.decision =
                   IF n \in {5, 6} THEN "ACCEPT"
                   ELSE IF n = 4 THEN "CONSIDER"
                   ELSE "REJECT"
        /\ received_offers =
               IF assessment.status = "success" /\ assessment.decision = "ACCEPT"
               THEN Append(assessment.held, assessment.counter_offer)
               ELSE assessment.held

\* A counter-offer that meets 5 of 6 criteria was accepted and added
C34_Witness ==
    /\ assessment.status = "success"
    /\ criteria_met(assessment.counter_offer) = 5
    /\ assessment.decision = "ACCEPT"
    /\ received_offers = Append(assessment.held, assessment.counter_offer)

\* C35: the BankOffer inside a CounterOffer carries as intent_id the
\* intent_id of the CreditIntent that the original offer answered, and an
\* offer_id different from the original offer's id.
C35_CounterOfferIds ==
    CounterOffered /\ negotiation.request.original_offer.present =>
        /\ negotiation.response.intent_id
               = negotiation.request.original_offer.intent_id
        /\ negotiation.response.counter_offer.offer_id
               # negotiation.request.original_offer_id

\* The audit actions of the routing of a request
RoutingActions ==
    {"bank_routing_success", "bank_routing_error", "bank_routing_exception",
     "negotiation_routing", "negotiation_response_received", "negotiation_error"}

\* The audit actions that record what a bank answered
ReceiptActions == {"offer_received", "text_response_received"}

\* The audit actions that record a bank's reply arriving
RoutingSuccessActions == {"bank_routing_success", "negotiation_response_received"}

\* C36: within one request the audit entries are in strict order:
\* message_received is the request's first entry and comes before every
\* bank_routing_* and negotiation_* entry of the request, and for each bank
\* the entry of its successful routing comes before its offer_received or
\* text_response_received entry, however the requests interleave.
C36_AuditOrderWithinRequest ==
    \A j \in 1..Len(audit_log) :
        LET e == audit_log[j] IN
        /\ e.action \in RoutingActions \cup ReceiptActions
           => \E i \in 1..(j - 1) :
                 /\ audit_log[i].by = e.by
                 /\ audit_log[i].action = "message_received"
        /\ e.action = "message_received"
           => \A i \in 1..(j - 1) : audit_log[i].by # e.by
        /\ e.action \in ReceiptActions
           => \E i \in 1..(j - 1) :
                 /\ audit_log[i].by = e.by
                 /\ audit_log[i].bank = e.bank
                 /\ audit_log[i].action \in RoutingSuccessActions

\* A request's message_received, bank_routing_success and offer_received
\* entries, with entries of the other request in between
C36_Witness ==
    \E i, j, k, l \in 1..Len(audit_log) :
        /\ i < j /\ j < k /\ k < l
        /\ audit_log[i].by = "r1" /\ audit_log[i].action = "message_received"
        /\ audit_log[j].by = "r2"
        /\ audit_log[k].by = "r1" /\ audit_log[k].action = "bank_routing_success"
        /\ audit_log[l].by = "r1" /\ audit_log[l].action = "offer_received"
        /\ audit_log[l].bank = audit_log[k].bank

\* The "data" of a post holds the sender's auth_token: it is the inbound
\* envelope, which carries "auth_token": "Bearer <token>"
CarriesSenderToken(r, post) ==
    post.env.data = "envelope" /\ msg[r].auth_form = "bearer" /\ msg[r].token.wf

\* C37: the inbound sender's bearer token is in no message the broker
\* sends to a bank, for every authenticated inbound message, also one
\* without a "data" field or whose "data" is not a JSON object.
C37_SenderTokenNotForwarded ==
    \A r \in Reqs :
        \A i \in 1..Len(sent[r]) : ~CarriesSenderToken(r, sent[r][i])

\* C38: when two requests execute interleaved on the shared executor, the
\* audit_summary.last_audit_entry of a request's broker_result is an audit
\* entry that request produced.
C38_LastAuditEntryOwn ==
    \A r \in Reqs :
        authenticated[r] /\ pc[r] = "done" => result[r].last_audit_entry.by = r

\* The places of the final status events among the events of request r
FinalStatuses(r) ==
    {i \in 1..Len(events[r]) : events[r][i] \in {"status:completed", "status:failed"}}

\* C39: every execute() call that receives a message emits the working
\* status first and then exactly one final status (completed or failed),
\* as its last event, on every path: auth endpoint, authentication
\* failure, routing; nothing final is emitted before execute() ends.
C39_OneFinalStatus ==
    \A r \in Reqs :
        Started(r) =>
            /\ events[r] # <<>>
            /\ events[r][1] = "status:working"
            /\ \A i \in 2..Len(events[r]) : events[r][i] # "status:working"
            /\ pc[r] = "done" => FinalStatuses(r) = {Len(events[r])}
            /\ pc[r] # "done" => FinalStatuses(r) = {}

\* One request ended on the authentication failure path and another on
\* the routing path
C39_Witness ==
    /\ pc["r1"] = "done" /\ pc["r2"] = "done"
    /\ \E r \in Reqs : events[r] = AuthErrorEvents
    /\ \E r \in Reqs : events[r] = ResultEvents /\ mode[r] = "negotiation"

\* Request r is an authenticated targeted negotiation whose bank_name is, up
\* to letter case, the name bank writes into its offers
NegotiatesOfferOf(r, bank) ==
    /\ authenticated[r] /\ mode[r] = "negotiation"
    /\ Lower(msg[r].bank_name) = Lower(DefaultBankName(bank))

\* C40: a negotiation whose bank_name is the name a bank writes into its
\* offers ("Wells Fargo", "Bank of America", "Chase Bank"), in any letter
\* case, is posted once, to that bank's endpoint, and no other bank handles
\* it.
C40_OfferBankNameResolved ==
    \A r \in Reqs : \A bank \in EndpointKeys :
        NegotiatesOfferOf(r, bank)
        => /\ Len(sent[r]) = 1
           /\ sent[r][1].bank = bank
           /\ \A h \in bank_handled : h.by = r => h.bank = bank

C40_Witness ==
    \E r \in Reqs :
        /\ NegotiatesOfferOf(r, "chase-bank")
        /\ msg[r].bank_name = "Chase Bank"
        /\ pc[r] = "done"
        /\ \E h \in bank_handled : h.by = r /\ h.bank = "chase-bank"

C40_WitnessUpperCase ==
    \E r \in Reqs :
        /\ NegotiatesOfferOf(r, "wells-fargo")
        /\ msg[r].bank_name = "WELLS FARGO"
        /\ \E h \in bank_handled : h.by = r /\ h.bank = "wells-fargo"

====
